---------------------------- MODULE Spec2Model ----------------------------
(***************************************************************************)
(* Movie catalog service: slug generation, slug uniqueness on creation,    *)
(* identifier classification and lookup, update/delete, the listing        *)
(* request (pagination parameters and metadata, filters, sorting) and the  *)
(* classification of failures.                                             *)
(*                                                                         *)
(* Strings are sequences of one-character strings.  The alphabet is        *)
(*   digits 0-9, lower-case letters a b c d e g h i k m n o p r s t u v,   *)
(*   upper-case letters A C I P S U, the hyphen, the blank and '!' (a      *)
(*   character outside [a-z0-9\s-]).                                       *)
(* Over this alphabet a numeric literal is an optionally signed run of     *)
(* digits with an optional exponent (e, optional sign, digits), or 0o and  *)
(* octal digits, or 0b and binary digits: no '.', '+', 'x' or "Infinity"   *)
(* can be spelled.                                                         *)
(***************************************************************************)
EXTENDS Integers, Sequences, FiniteSets, TLC

VARIABLES
    movies,   \* the rows of table movies: records [movie_id, slug, title]
    nextId,   \* the table's AUTO_INCREMENT counter
    calls,    \* createMovie calls in flight, per caller
    last,     \* the response to the last completed request
    log,      \* the responses to the create requests, oldest first
    probe     \* a pure function under test: its input and its result

vars == <<movies, nextId, calls, last, log, probe>>

-----------------------------------------------------------------------------
(* Characters and strings *)

Digits == {"0", "1", "2", "3", "4", "5", "6", "7", "8", "9"}

LowerLetters ==
    {"a", "b", "c", "d", "e", "g", "h", "i", "k", "m", "n", "o", "p", "r", "s", "t", "u",
     "v"}

UpperLetters == {"A", "C", "I", "P", "S", "U"}

Hyphen == "-"

Blank == " "

\* String.prototype.toLowerCase, one character
ToLower(c) ==
    CASE c = "A" -> "a" [] c = "C" -> "c" [] c = "I" -> "i" [] c = "P" -> "p"
      [] c = "S" -> "s" [] c = "U" -> "u" [] OTHER -> c

\* \s of a regular expression
IsSpace(c) == c = Blank

\* [a-z0-9] of a regular expression
IsLowerAlnum(c) == c \in LowerLetters \cup Digits

LowerCase(s) == [i \in 1..Len(s) |-> ToLower(s[i])]

RECURSIVE TrimLeft(_)
TrimLeft(s) == IF s # <<>> /\ IsSpace(Head(s)) THEN TrimLeft(Tail(s)) ELSE s

RECURSIVE TrimRight(_)
TrimRight(s) ==
    IF s # <<>> /\ IsSpace(s[Len(s)]) THEN TrimRight(SubSeq(s, 1, Len(s) - 1)) ELSE s

\* String.prototype.trim
Trim(s) == TrimRight(TrimLeft(s))

\* Number.prototype.toString of an integer >= 0 (a template literal's conversion)
RECURSIVE DecStr(_)
DecStr(n) ==
    LET d == CASE n % 10 = 0 -> "0" [] n % 10 = 1 -> "1" [] n % 10 = 2 -> "2"
               [] n % 10 = 3 -> "3" [] n % 10 = 4 -> "4" [] n % 10 = 5 -> "5"
               [] n % 10 = 6 -> "6" [] n % 10 = 7 -> "7" [] n % 10 = 8 -> "8"
               [] OTHER -> "9"
    IN  IF n < 10 THEN <<d>> ELSE DecStr(n \div 10) \o <<d>>

DigitValue(c) ==
    CASE c = "0" -> 0 [] c = "1" -> 1 [] c = "2" -> 2 [] c = "3" -> 3 [] c = "4" -> 4
      [] c = "5" -> 5 [] c = "6" -> 6 [] c = "7" -> 7 [] c = "8" -> 8 [] OTHER -> 9

AllDigits(s) == \A i \in 1..Len(s) : s[i] \in Digits

\* the value of a run of digits
RECURSIVE DigitsValue(_)
DigitsValue(s) ==
    IF s = <<>> THEN 0 ELSE 10 * DigitsValue(SubSeq(s, 1, Len(s) - 1)) + DigitValue(s[Len(s)])

\* the longest prefix of s made of digits
RECURSIVE DigitPrefix(_)
DigitPrefix(s) ==
    IF s # <<>> /\ Head(s) \in Digits THEN <<Head(s)>> \o DigitPrefix(Tail(s)) ELSE <<>>

-----------------------------------------------------------------------------
(* JavaScript values: undefined, NaN, an integer, a string *)

JsUndef == [k |-> "undef", v |-> 0, s |-> <<>>]

JsNaN == [k |-> "nan", v |-> 0, s |-> <<>>]

JsInt(n) == [k |-> "int", v |-> n, s |-> <<>>]

JsStr(x) == [k |-> "str", v |-> 0, s |-> x]

\* !x
Falsy(x) ==
    \/ x.k \in {"undef", "nan"}
    \/ x.k = "int" /\ x.v = 0
    \/ x.k = "str" /\ x.s = <<>>

StripSign(s) == IF s # <<>> /\ Head(s) = Hyphen THEN Tail(s) ELSE s

Drop(s, n) == SubSeq(s, n + 1, Len(s))

OctalDigits == {"0", "1", "2", "3", "4", "5", "6", "7"}

\* StrDecimalLiteral: sign, digits, exponent
IsDecimalLiteral(t) ==
    LET u == StripSign(t)
        m == DigitPrefix(u)
        r == Drop(u, Len(m))
    IN  /\ m # <<>>
        /\ \/ r = <<>>
           \/ /\ Head(r) = "e"
              /\ StripSign(Tail(r)) # <<>>
              /\ AllDigits(StripSign(Tail(r)))

\* 0o and octal digits
IsOctalLiteral(t) ==
    /\ Len(t) >= 3
    /\ t[1] = "0"
    /\ t[2] = "o"
    /\ \A i \in 3..Len(t) : t[i] \in OctalDigits

\* 0b and binary digits
IsBinaryLiteral(t) ==
    /\ Len(t) >= 3
    /\ t[1] = "0"
    /\ t[2] = "b"
    /\ \A i \in 3..Len(t) : t[i] \in {"0", "1"}

\* whether Number(s) is a number: the empty string is 0
IsNumericLiteral(s) ==
    LET t == Trim(s)
    IN  t = <<>> \/ IsDecimalLiteral(t) \/ IsOctalLiteral(t) \/ IsBinaryLiteral(t)

\* the global isNaN(x)
isNaN(x) ==
    CASE x.k = "int" -> FALSE
      [] x.k = "str" -> ~IsNumericLiteral(x.s)
      [] OTHER -> TRUE

\* parseInt(x) without a radix: blanks, sign, the digits that follow
parseInt(x) ==
    CASE x.k = "int" -> x
      [] x.k = "str" ->
            LET t == TrimLeft(x.s)
                m == DigitPrefix(StripSign(t))
            IN  IF m = <<>> THEN JsNaN
                ELSE IF t[1] = Hyphen THEN JsInt(0 - DigitsValue(m))
                ELSE JsInt(DigitsValue(m))
      [] OTHER -> JsNaN

-----------------------------------------------------------------------------
(* src/src/utils/slugGenerator.js *)

SlugMaxLen == 50

SlugPatternMaxLen == 100

\* movieId = null (the parameter's default); 0 is falsy like null
NoId == 0

\* what generateMovieSlug raises for a missing title
Threw == <<"Error">>

\* .replace(/[^a-z0-9\s-]/g, '')
StripSpecial(s) == SelectSeq(s, LAMBDA c : IsLowerAlnum(c) \/ IsSpace(c) \/ c = Hyphen)

RECURSIVE SkipSpaces(_)
SkipSpaces(s) == IF s # <<>> /\ IsSpace(Head(s)) THEN SkipSpaces(Tail(s)) ELSE s

\* .replace(/\s+/g, '-')
RECURSIVE SpacesToHyphen(_)
SpacesToHyphen(s) ==
    IF s = <<>> THEN <<>>
    ELSE IF IsSpace(Head(s)) THEN <<Hyphen>> \o SpacesToHyphen(SkipSpaces(s))
    ELSE <<Head(s)>> \o SpacesToHyphen(Tail(s))

RECURSIVE SkipHyphens(_)
SkipHyphens(s) == IF s # <<>> /\ Head(s) = Hyphen THEN SkipHyphens(Tail(s)) ELSE s

\* .replace(/-+/g, '-')
RECURSIVE CollapseHyphens(_)
CollapseHyphens(s) ==
    IF s = <<>> THEN <<>>
    ELSE IF Head(s) = Hyphen THEN <<Hyphen>> \o CollapseHyphens(SkipHyphens(s))
    ELSE <<Head(s)>> \o CollapseHyphens(Tail(s))

\* .replace(/^-|-$/g, ''): one hyphen at the start, one at the end
StripLeadingHyphen(s) == IF s # <<>> /\ Head(s) = Hyphen THEN Tail(s) ELSE s

StripEdgeHyphens(s) ==
    LET a == IF s # <<>> /\ Head(s) = Hyphen THEN Tail(s) ELSE s
    IN  IF a # <<>> /\ a[Len(a)] = Hyphen THEN SubSeq(a, 1, Len(a) - 1) ELSE a

\* the chain of replacements of lines 21-27
Normalise(title) ==
    StripEdgeHyphens(CollapseHyphens(SpacesToHyphen(StripSpecial(Trim(LowerCase(title))))))

\* the place of the last hyphen of s, 0 when it has none
LastHyphen(s) ==
    LET at == {i \in 1..Len(s) : s[i] = Hyphen}
    IN  IF at = {} THEN 0 ELSE CHOOSE i \in at : \A j \in at : j <= i

\* the cut without the step back to the last hyphen
CutAtLength(s) == SubSeq(s, 1, SlugMaxLen)

\* .substring(0, 50).replace(/-[^-]*$/, '')
CutAtWordBoundary(s) ==
    LET head == SubSeq(s, 1, SlugMaxLen)
        h    == LastHyphen(head)
    IN  IF h = 0 THEN head ELSE SubSeq(head, 1, h - 1)

MoviePrefix == <<"m", "o", "v", "i", "e", "-">>

\* generateMovieSlug(title, movieId); now is Date.now() in decimal, read when
\* the fallback is taken
generateMovieSlug(title, movieId, now) ==
    IF title = <<>> THEN Threw
    ELSE
        LET norm   == Normalise(title)
            cut    == IF Len(norm) > SlugMaxLen THEN CutAtWordBoundary(norm) ELSE norm
            withId == IF movieId # NoId THEN cut \o <<Hyphen>> \o DecStr(movieId) ELSE cut
        IN  IF withId = <<>>
            THEN (IF movieId # NoId THEN MoviePrefix \o DecStr(movieId) ELSE MoviePrefix \o now)
            ELSE withId

\* /^[a-z0-9]+(?:-[a-z0-9]+)*$/
MatchesSlugPattern(s) ==
    /\ s # <<>>
    /\ \A i \in 1..Len(s) : IsLowerAlnum(s[i]) \/ s[i] = Hyphen
    /\ s[1] # Hyphen
    /\ s[Len(s)] # Hyphen
    /\ \A i \in 1..(Len(s) - 1) : ~(s[i] = Hyphen /\ s[i + 1] = Hyphen)

\* isValidSlug(slug), slug any value
isValidSlug(x) ==
    /\ x.k = "str"
    /\ x.s # <<>>
    /\ MatchesSlugPattern(x.s)
    /\ Len(x.s) <= SlugPatternMaxLen

\* the members the module exports
SlugGeneratorExports ==
    {"generateMovieSlug", "isValidSlug", "extractMovieIdFromSlug", "generateFromMovie"}

-----------------------------------------------------------------------------
(* src/unnamed/part_006: validation *)

CurrentYear == 2026

\* new URL(value) succeeds: "a:a" has a scheme, "a" has none
WellFormedUrls == {<<"a", ":", "a">>}

isNonEmptyString(x) == x.k = "str" /\ Len(Trim(x.s)) > 0

\* Number.isInteger(value) && value > 0
isPositiveInteger(x) == x.k = "int" /\ x.v > 0

isValidYear(x) == x.k = "int" /\ x.v >= 1900 /\ x.v <= CurrentYear + 10

isValidRating(x) == x.k = "int" /\ x.v >= 0 /\ x.v <= 10

isValidUrl(x) == x.k = "str" /\ x.s \in WellFormedUrls

\* one error message when cond holds
ErrorIf(cond, msg) == IF cond THEN <<msg>> ELSE <<>>

\* validateMovieData stopping at the first rule violated
validateMovieDataFirstError(d) ==
    LET errors ==
            ErrorIf(~isNonEmptyString(d.title), "Title is required and must be a non-empty string")
         \o ErrorIf(~isNonEmptyString(d.director), "Director is required and must be a non-empty string")
         \o (IF d.year.k = "undef" THEN <<"Year is required">>
             ELSE ErrorIf(~isValidYear(d.year), "Year must be a valid year"))
         \o ErrorIf(~isNonEmptyString(d.genre), "Genre is required and must be a non-empty string")
         \o ErrorIf(d.duration_minutes.k # "undef" /\ ~isPositiveInteger(d.duration_minutes),
                    "Duration must be a positive integer")
         \o ErrorIf(d.rating.k # "undef" /\ ~isValidRating(d.rating),
                    "Rating must be a number between 0 and 10")
         \o ErrorIf(~Falsy(d.trailer_url) /\ ~isValidUrl(d.trailer_url), "Trailer URL must be a valid URL")
         \o ErrorIf(~Falsy(d.video_url) /\ ~isValidUrl(d.video_url), "Video URL must be a valid URL")
         \o ErrorIf(~Falsy(d.poster_landscape) /\ ~isValidUrl(d.poster_landscape),
                    "Landscape poster URL must be a valid URL")
         \o ErrorIf(~Falsy(d.poster_portrait) /\ ~isValidUrl(d.poster_portrait),
                    "Portrait poster URL must be a valid URL")
    IN  [isValid |-> errors = <<>>, errors |-> SubSeq(errors, 1, IF errors = <<>> THEN 0 ELSE 1)]

\* validateMovieData(movieData): every rule is tried, in the order of the code
validateMovieData(d) ==
    LET errors ==
            ErrorIf(~isNonEmptyString(d.title), "Title is required and must be a non-empty string")
         \o ErrorIf(~isNonEmptyString(d.director), "Director is required and must be a non-empty string")
         \o (IF d.year.k = "undef" THEN <<"Year is required">>
             ELSE ErrorIf(~isValidYear(d.year), "Year must be a valid year"))
         \o ErrorIf(~isNonEmptyString(d.genre), "Genre is required and must be a non-empty string")
         \o ErrorIf(d.duration_minutes.k # "undef" /\ ~isPositiveInteger(d.duration_minutes),
                    "Duration must be a positive integer")
         \o ErrorIf(d.rating.k # "undef" /\ ~isValidRating(d.rating),
                    "Rating must be a number between 0 and 10")
         \o ErrorIf(~Falsy(d.trailer_url) /\ ~isValidUrl(d.trailer_url), "Trailer URL must be a valid URL")
         \o ErrorIf(~Falsy(d.video_url) /\ ~isValidUrl(d.video_url), "Video URL must be a valid URL")
         \o ErrorIf(~Falsy(d.poster_landscape) /\ ~isValidUrl(d.poster_landscape),
                    "Landscape poster URL must be a valid URL")
         \o ErrorIf(~Falsy(d.poster_portrait) /\ ~isValidUrl(d.poster_portrait),
                    "Portrait poster URL must be a valid URL")
    IN  [isValid |-> errors = <<>>, errors |-> errors]

-----------------------------------------------------------------------------
(* src/src/utils/pagination.js, lines 271-574: errorMessages *)

Undefined == "undefined"

\* o.f of an object
Prop(o, f) == IF f \in DOMAIN o THEN o[f] ELSE Undefined

\* a string primitive handed where an Error is expected: it has no code, no
\* name and no message
Primitive(x) == [primitive |-> x]

KnownContexts == {"movie", "user", "upload", "auth", "search", "pagination", "general"}

\* getContextSpecificMessage(context): messages[context] || messages.general
getContextSpecificMessage(context) ==
    IF context \in KnownContexts THEN "An error occurred in " \o context
    ELSE "An error occurred in general"

\* getUserFriendlyMessage(error, context): the branches on error.code; those
\* on the text of error.message need a message, which a primitive has not
getUserFriendlyMessage(error, context) ==
    LET code == IF Prop(error, "code") # Undefined THEN Prop(error, "code")
                ELSE IF Prop(error, "name") # Undefined THEN Prop(error, "name")
                ELSE ""
    IN  CASE code = "ER_DUP_ENTRY" -> "This entry already exists"
          [] code \in {"ER_NO_REFERENCED_ROW_2", "ER_NO_REFERENCED_ROW"} -> "Referenced item does not exist"
          [] code \in {"ER_ROW_IS_REFERENCED_2", "ER_ROW_IS_REFERENCED"} -> "Item is referenced by other data"
          [] code \in {"ECONNREFUSED", "ER_ACCESS_DENIED_ERROR"} -> "Unable to connect to database"
          [] code = "ER_NO_SUCH_TABLE" -> "System error"
          [] code = "ValidationError" -> "Please check your input"
          [] code \in {"JsonWebTokenError", "TokenExpiredError"} -> "Your session has expired"
          [] code = "UnauthorizedError" -> "Not authorized"
          [] code = "ETIMEDOUT" -> "Request timed out"
          [] code = "ENOTFOUND" -> "Network error"
          [] OTHER -> getContextSpecificMessage(context)

\* createErrorResponse(error, context, additionalInfo): the object returned has
\* the members success, message and error; error.type is the context
createErrorResponse(error, context) ==
    [success |-> "false", message |-> getUserFriendlyMessage(error, context), error |-> [type |-> context]]

-----------------------------------------------------------------------------
(* src/unnamed/part_005, lines 229-328: response *)

NoStatus == 0

\* response.error(res, message, statusCode = 500, errors): the status sent
ResponseError(statusCode) == IF statusCode = NoStatus THEN 500 ELSE statusCode

\* response.validationError
ResponseValidationError == ResponseError(400)

\* response.notFound
ResponseNotFound == ResponseError(404)

\* response.created
ResponseCreated == 201

\* response.success(res, data, message, statusCode = 200)
ResponseSuccess == 200

\* errorResponse.statusCode, as the controllers read it
StatusCodeOf(errorResponse) ==
    IF "statusCode" \in DOMAIN errorResponse THEN errorResponse.statusCode ELSE NoStatus

-----------------------------------------------------------------------------
(* src/src/utils/pagination.js, lines 1-270: pagination *)

DefaultPage == 1

DefaultLimit == 10

MaxLimit == 100

\* the members the module exports
PaginationExports ==
    {"calculatePagination", "calculatePageRange", "generatePaginationLinks",
     "createPaginationResponse", "validatePaginationParams", "generateSummaryText"}

\* validatePaginationParams({page, limit}, maxLimit = 100): the object returned
\* has the members isValid, errors, page and limit
validatePaginationParamsNoMaximum(page, limit) ==
    LET pageNum  == parseInt(page)
        limitNum == parseInt(limit)
        pageBad  == page.k # "undef" /\ (isNaN(pageNum) \/ pageNum.v < 1)
        limitLow == limit.k # "undef" /\ (isNaN(limitNum) \/ limitNum.v < 1)
        errors   == ErrorIf(pageBad, "Page must be a positive integer")
                 \o ErrorIf(limitLow, "Limit must be a positive integer")
    IN  [isValid |-> errors = <<>>,
         errors  |-> errors,
         page    |-> IF page.k = "undef" \/ pageBad THEN DefaultPage ELSE pageNum.v,
         limit   |-> IF limit.k = "undef" \/ limitLow THEN DefaultLimit ELSE limitNum.v]

validatePaginationParams(page, limit) ==
    LET pageNum  == parseInt(page)
        limitNum == parseInt(limit)
        pageBad  == page.k # "undef" /\ (isNaN(pageNum) \/ pageNum.v < 1)
        limitLow == limit.k # "undef" /\ (isNaN(limitNum) \/ limitNum.v < 1)
        limitBig == limit.k # "undef" /\ ~limitLow /\ limitNum.v > MaxLimit
        errors   == ErrorIf(pageBad, "Page must be a positive integer")
                 \o ErrorIf(limitLow, "Limit must be a positive integer")
                 \o ErrorIf(limitBig, "Limit cannot exceed 100")
    IN  [isValid |-> errors = <<>>,
         errors  |-> errors,
         page    |-> IF page.k = "undef" \/ pageBad THEN DefaultPage ELSE pageNum.v,
         limit   |-> IF limit.k = "undef" \/ limitLow \/ limitBig THEN DefaultLimit ELSE limitNum.v]

-----------------------------------------------------------------------------
(* The storage collaborator: table movies *)

\* a NULL column value
NullSlug == <<"NULL">>

NoRow == [movie_id |-> 0, slug |-> NullSlug, title |-> <<>>]

RECURSIVE Pow10(_)
Pow10(n) == IF n = 0 THEN 1 ELSE 10 * Pow10(n - 1)

\* the positive integer a string compares equal to in `movie_id = ?` (the
\* server casts it to a number: blanks, sign, digits, exponent, and nothing
\* after them), 0 when it equals none
MySqlId(s) ==
    LET t      == TrimLeft(s)
        u      == StripSign(t)
        m      == DigitPrefix(u)
        r      == Drop(u, Len(m))
        hasExp == r # <<>> /\ Head(r) = "e" /\ DigitPrefix(StripSign(Tail(r))) # <<>>
        expNeg == hasExp /\ Head(Tail(r)) = Hyphen
        e      == IF hasExp THEN DigitsValue(DigitPrefix(StripSign(Tail(r)))) ELSE 0
        mant   == DigitsValue(m)
    IN  IF m = <<>> \/ u # t THEN 0
        ELSE IF ~expNeg THEN mant * Pow10(e)
        ELSE IF mant % Pow10(e) = 0 THEN mant \div Pow10(e)
        ELSE 0

\* SELECT ... WHERE slug = ?
RowsBySlug(rows, slug) == {r \in rows : r.slug # NullSlug /\ r.slug = slug}

\* SELECT ... WHERE movie_id = ?
RowsById(rows, x) ==
    LET id == IF x.k = "int" THEN x.v ELSE IF x.k = "str" THEN MySqlId(x.s) ELSE 0
    IN  {r \in rows : r.movie_id = id}

\* rows[0] || null
FirstRow(rs) == IF rs = {} THEN NoRow ELSE CHOOSE r \in rs : TRUE

\* the unique index on slug (PHASE1_IMPLEMENTATION.md): a NULL never collides
SlugTaken(rows, slug) == slug # NullSlug /\ \E r \in rows : r.slug = slug

-----------------------------------------------------------------------------
(* src/src/services/movie.service.js, lines 1-385 *)

\* the column getMovieById compares with the identifier
LookupColumn(identifier) ==
    IF isValidSlug(identifier) /\ isNaN(identifier) THEN "slug" ELSE "movie_id"

\* getMovieById(identifier): the row found, NoRow for null
getMovieById(rows, identifier) ==
    IF LookupColumn(identifier) = "slug"
    THEN FirstRow(RowsBySlug(rows, identifier.s))
    ELSE FirstRow(RowsById(rows, identifier))

\* the test with the comparison one off
checkSlugExistsMoreThanOne(rows, slug) == Cardinality({r \in rows : r.slug = slug}) > 1

\* checkSlugExists(slug): COUNT(*) > 0
checkSlugExists(rows, slug) == Cardinality({r \in rows : r.slug = slug}) > 0

\* the list with the slug among the fields a caller may set
AllowedFieldsWithSlug ==
    {"title", "slug", "overview", "release_year", "duration_minutes", "rating", "director",
     "cast_list", "trailer_url", "video_url", "is_trending", "is_top_rated",
     "view_count", "poster_landscape", "poster_portrait"}

AllowedFields ==
    {"title", "overview", "release_year", "duration_minutes", "rating", "director",
     "cast_list", "trailer_url", "video_url", "is_trending", "is_top_rated",
     "view_count", "poster_landscape", "poster_portrait"}

\* the columns of the table this model keeps
ModelledColumns == {"movie_id", "slug", "title"}

\* UPDATE movies SET ... WHERE movie_id = ?: the row after the statement
UpdatedRow(r, sets) ==
    [c \in ModelledColumns |-> IF c \in DOMAIN sets THEN sets[c] ELSE r[c]]

\* updateMovieById(id, movieData): the fields the statement sets
UpdateSets(movieData) ==
    [f \in (DOMAIN movieData) \cap AllowedFields |-> movieData[f]]

\* updateMovieById(id, movieData): the table after the call and affectedRows
updateMovieById(rows, id, movieData) ==
    LET sets   == UpdateSets(movieData)
        target == {r \in rows : r.movie_id = id}
        clash  == \E r \in target : "slug" \in DOMAIN sets /\ sets["slug"] # r.slug
                                     /\ SlugTaken(rows, sets["slug"])
    IN  IF id = 0 \/ DOMAIN movieData = {} \/ DOMAIN sets = {} THEN [rows |-> rows, affectedRows |-> 0, threw |-> FALSE]
        ELSE IF clash THEN [rows |-> rows, affectedRows |-> 0, threw |-> TRUE]
        ELSE [rows |-> (rows \ target) \cup {UpdatedRow(r, sets) : r \in target},
              affectedRows |-> Cardinality(target), threw |-> FALSE]

\* deleteMovieById(id)
deleteMovieById(rows, id) ==
    [rows |-> {r \in rows : r.movie_id # id},
     affectedRows |-> Cardinality({r \in rows : r.movie_id = id})]

\* `${baseSlug}-${slugCounter}`
NextCandidateFromTwo(baseSlug, slugCounter) ==
    baseSlug \o <<Hyphen>> \o DecStr(slugCounter + 1)

NextCandidate(baseSlug, slugCounter) == baseSlug \o <<Hyphen>> \o DecStr(slugCounter)

\* createMovie, lines 237-244: the loop run to its end against a table no one
\* else writes
RECURSIVE ResolveLoop(_, _, _, _)
ResolveLoop(rows, baseSlug, finalSlug, slugCounter) ==
    IF checkSlugExists(rows, finalSlug)
    THEN ResolveLoop(rows, baseSlug, NextCandidate(baseSlug, slugCounter), slugCounter + 1)
    ELSE finalSlug

\* createMovie, lines 237-244: the number of checkSlugExists calls of that loop
RECURSIVE ResolveChecks(_, _, _, _)
ResolveChecks(rows, baseSlug, finalSlug, slugCounter) ==
    IF checkSlugExists(rows, finalSlug)
    THEN 1 + ResolveChecks(rows, baseSlug, NextCandidate(baseSlug, slugCounter), slugCounter + 1)
    ELSE 1

\* the statement without a value for the slug column
InsertParamsNoSlug(title, finalSlug) == [title |-> title, slug |-> NullSlug]

\* createMovie, lines 255-271: the values bound to the columns this model keeps
InsertParams(title, finalSlug) == [title |-> title, slug |-> finalSlug]

\* INSERT INTO movies: the error the statement raises, "" for none
InsertError(rows, params) ==
    IF SlugTaken(rows, params.slug) THEN "ER_DUP_ENTRY" ELSE ""

\* INSERT INTO movies: the row added under a fresh AUTO_INCREMENT id
InsertedRow(id, params) == [movie_id |-> id, slug |-> params.slug, title |-> params.title]

\* a call of slugGenerator[member]: a member the module does not export is
\* undefined, and calling it raises a TypeError
MemberError(exports, member) ==
    IF member \in exports THEN "" ELSE member \o " is not a function"

\* createMovie, lines 228-236: what is thrown into the catch block before the
\* loop starts ("" for nothing)
createMovieEarlyError(title) ==
    IF Falsy(title) THEN createErrorResponse(Primitive("validation"), "Title is required").message
    ELSE MemberError(SlugGeneratorExports, "generateSlug")

\* createMovie, lines 282-294: what the catch block throws for an error caught
createMovieRethrow(code, message) ==
    IF code = "ER_DUP_ENTRY"
    THEN createErrorResponse(Primitive("duplicate"), "Movie with this title already exists")
    ELSE createErrorResponse(Primitive("database"), message)

-----------------------------------------------------------------------------
(* src/src/controllers/movie.controller.js, lines 1-300 *)

\* handleCreateMovie, lines 212-230: the status sent for an error caught
handleCreateMovieCatch(error) ==
    IF Prop(error, "type") = "duplicate" THEN ResponseError(409)
    ELSE IF Prop(error, "type") = "validation" THEN ResponseValidationError
    ELSE ResponseError(StatusCodeOf(createErrorResponse(Primitive("database"), Prop(error, "message"))))

\* handleCreateMovie with the createMovie call it makes, baseSlug being the
\* value generateSlug returns: the table and its counter after the request,
\* the status sent, the slug stored and the number of statements handed to
\* storage
handleCreateMovie(rows, id, body, baseSlug) ==
    LET early     == createMovieEarlyError(body.title)
        finalSlug == ResolveLoop(rows, baseSlug, baseSlug, 1)
        checks    == ResolveChecks(rows, baseSlug, baseSlug, 1)
        params    == InsertParams(body.title.s, finalSlug)
        code      == InsertError(rows, params)
    IN  IF ~validateMovieData(body).isValid
        THEN [rows |-> rows, nextId |-> id, status |-> ResponseValidationError,
              slug |-> NullSlug, statements |-> 0]
        ELSE IF early # ""
        THEN [rows |-> rows, nextId |-> id,
              status |-> handleCreateMovieCatch(createMovieRethrow("", early)),
              slug |-> NullSlug, statements |-> 0]
        ELSE IF code = ""
        THEN [rows |-> rows \cup {InsertedRow(id, params)}, nextId |-> id + 1,
              status |-> ResponseCreated, slug |-> finalSlug, statements |-> checks + 1]
        ELSE [rows |-> rows, nextId |-> id,
              status |-> handleCreateMovieCatch(createMovieRethrow(code, code)),
              slug |-> NullSlug, statements |-> checks + 1]

\* handleGetMovieById, lines 116-136: how the token is taken
ClassifyIdentifier(token) ==
    LET identifier  == JsStr(token)
        isNumericId == ~isNaN(identifier) /\ isPositiveInteger(identifier)
    IN  IF Falsy(identifier) \/ Trim(token) = <<>> THEN "invalid"
        ELSE IF ~isNumericId /\ ~isValidSlug(identifier) THEN "invalid"
        ELSE IF isNumericId THEN "ID"
        ELSE "slug"

\* handleGetMovieById: the response
handleGetMovieById(rows, token) ==
    LET kind  == ClassifyIdentifier(token)
        movie == getMovieById(rows, JsStr(token))
    IN  IF kind = "invalid"
        THEN [op |-> "get", token |-> token, kind |-> kind, status |-> ResponseValidationError,
              column |-> "", found |-> NoRow]
        ELSE [op |-> "get", token |-> token, kind |-> kind,
              status |-> IF movie = NoRow THEN ResponseNotFound ELSE ResponseSuccess,
              column |-> LookupColumn(JsStr(token)), found |-> movie]

\* validatedPagination.offset, undefined (falsy) when the object has no such member
OffsetOf(validated) == IF "offset" \in DOMAIN validated THEN validated.offset ELSE 0

\* getAllMovies, lines 109-128: the statements handed to storage, in order
getAllMoviesQueries(validated) ==
    <<[q |-> "count", limit |-> 0, hasOffset |-> FALSE, offset |-> 0],
      [q |-> "page", limit |-> validated.limit, hasOffset |-> OffsetOf(validated) # 0,
       offset |-> OffsetOf(validated)]>>

\* getAllMovies, lines 130-153: the error caught after the statements ran
getAllMoviesLateError ==
    IF MemberError(PaginationExports, "calculatePaginationMetadata") # ""
    THEN MemberError(PaginationExports, "calculatePaginationMetadata")
    ELSE MemberError(PaginationExports, "generatePaginationSummary")

\* handleGetAllMovies with the service call it makes: the response
handleGetAllMovies(pageQ, limitQ) ==
    LET page      == IF pageQ.k = "undef" THEN JsInt(DefaultPage) ELSE pageQ
        limit     == IF limitQ.k = "undef" THEN JsInt(DefaultLimit) ELSE limitQ
        validated == validatePaginationParams(parseInt(page), parseInt(limit))
        inService == validatePaginationParams(JsInt(validated.page), JsInt(validated.limit))
        thrown    == createErrorResponse(Primitive("database"), getAllMoviesLateError)
        caught    == createErrorResponse(Primitive("database"), Prop(thrown, "message"))
    IN  [op |-> "list", pageQ |-> pageQ, limitQ |-> limitQ,
         errors  |-> validated.errors,
         page    |-> inService.page,
         limit   |-> inService.limit,
         queries |-> getAllMoviesQueries(inService),
         status  |-> IF getAllMoviesLateError = "" THEN ResponseSuccess
                     ELSE ResponseError(StatusCodeOf(caught))]

\* handleUpdateMovie: the table after the request and the status sent
handleUpdateMovie(rows, idToken, body) ==
    LET id     == parseInt(JsStr(idToken))
        result == updateMovieById(rows, id.v, body)
    IN  IF isNaN(id) \/ DOMAIN body = {} THEN [rows |-> rows, status |-> 400, affectedRows |-> 0]
        ELSE IF result.threw THEN [rows |-> rows, status |-> 500, affectedRows |-> 0]
        ELSE IF result.affectedRows > 0
             THEN [rows |-> result.rows, status |-> 200, affectedRows |-> result.affectedRows]
        ELSE IF getMovieById(rows, id) = NoRow THEN [rows |-> rows, status |-> 404, affectedRows |-> 0]
        ELSE [rows |-> rows, status |-> 200, affectedRows |-> 0]

\* handleDeleteMovie: the table after the request and the status sent
handleDeleteMovie(rows, idToken) ==
    LET id     == parseInt(JsStr(idToken))
        result == deleteMovieById(rows, id.v)
    IN  IF isNaN(id) THEN [rows |-> rows, status |-> 400, affectedRows |-> 0]
        ELSE IF result.affectedRows > 0
             THEN [rows |-> result.rows, status |-> 200, affectedRows |-> result.affectedRows]
        ELSE [rows |-> rows, status |-> 404, affectedRows |-> 0]

-----------------------------------------------------------------------------
(* The requests of the running service: each handler runs to its response *)

Inception == <<"I", "n", "c", "e", "p", "t", "i", "o", "n">>

TheDarkKnight == <<"t", "h", "e", "-", "d", "a", "r", "k", "-", "k", "n", "i", "g", "h", "t">>

\* rows the table holds when the service starts
SeedRows ==
    {[movie_id |-> 1, slug |-> TheDarkKnight, title |-> <<"t", "h", "e", " ", "d", "a", "r", "k", " ", "k", "n", "i", "g", "h", "t">>],
     [movie_id |-> 2, slug |-> <<"a", "-", "1">>, title |-> <<"A", " ", "1">>],
     [movie_id |-> 3, slug |-> <<"1", "2", "3">>, title |-> <<"1", "2", "3">>]}

FirstFreeId == Cardinality(SeedRows) + 1

\* the identifier of GET /:identifier
IdentifierTokens ==
    {<<"1", "2", "3">>, TheDarkKnight, <<"-", "b", "a", "d", "-">>, <<"0">>, <<"1">>, <<"3">>,
     <<"1", "e", "0">>, <<"a", "-", "1">>, <<"A">>, <<" ">>}

\* the title of POST /
CreateTitles == {Inception, <<>>}

\* the value generateSlug returns, were it exported
BaseSlugs == {<<"i", "n", "c", "e", "p", "t", "i", "o", "n">>, <<"1">>, <<"a", "-", "1">>}

\* the id of PATCH /:id and DELETE /:id
IdTokens == {<<"1">>, <<"9">>, <<"a">>}

\* the body of PATCH /:id
UpdateBodies ==
    {[title |-> Inception],
     [slug |-> <<"1">>],
     [title |-> <<"1">>, slug |-> NullSlug],
     [genre |-> <<"a">>],
     <<>>}

\* the page and limit of GET /
PageQueries == {JsUndef, JsStr(<<"1">>), JsStr(<<"2">>), JsStr(<<"0">>), JsStr(<<"a">>)}

LimitQueries ==
    {JsUndef, JsStr(<<"1", "0">>), JsStr(<<"0">>), JsStr(<<"-", "5">>),
     JsStr(<<"1", "0", "1">>), JsStr(<<"a">>)}

\* the create responses kept
MaxLog == 2

Callers == {"c1", "c2"}

IdleCall ==
    [pc |-> "idle", title |-> <<>>, baseSlug |-> <<>>, finalSlug |-> <<>>, slugCounter |-> 0,
     dbError |-> "", status |-> NoStatus]

NoResponse == [op |-> "none", status |-> NoStatus]

NoProbe == [pc |-> "none"]

\* req.body of a create request: the title varies, the other fields are valid
MovieBody(title) ==
    [title |-> JsStr(title), director |-> JsStr(<<"a">>), year |-> JsInt(2010),
     genre |-> JsStr(<<"a">>), duration_minutes |-> JsUndef, rating |-> JsUndef,
     trailer_url |-> JsUndef, video_url |-> JsUndef, poster_landscape |-> JsUndef,
     poster_portrait |-> JsUndef]

Init ==
    /\ movies \in SUBSET SeedRows
    /\ nextId = FirstFreeId
    /\ calls = [c \in Callers |-> IdleCall]
    /\ last = NoResponse
    /\ log = <<>>
    /\ probe = NoProbe

\* GET /:identifier
GetMovieRequest(token) ==
    /\ last' = handleGetMovieById(movies, token)
    /\ UNCHANGED <<movies, nextId, calls, log, probe>>

\* what a create request leaves behind
CreateResponse(title, status, slug) ==
    [op |-> "create", title |-> title, status |-> status, slug |-> slug]

\* POST /: handleCreateMovie and the createMovie call it makes
CreateMovieRequest(title) ==
    /\ Len(log) < MaxLog
    /\ \E baseSlug \in BaseSlugs :
          LET done == handleCreateMovie(movies, nextId, MovieBody(title), baseSlug)
          IN  /\ movies' = done.rows
              /\ nextId' = done.nextId
              /\ last' = CreateResponse(title, done.status, done.slug)
    /\ log' = Append(log, last')
    /\ UNCHANGED <<calls, probe>>

\* PATCH /:id
UpdateMovieRequest(idToken, body) ==
    /\ LET r == handleUpdateMovie(movies, idToken, body)
       IN  /\ movies' = r.rows
           /\ last' = [op |-> "update", id |-> idToken, body |-> body, status |-> r.status,
                       affectedRows |-> r.affectedRows]
    /\ UNCHANGED <<nextId, calls, log, probe>>

\* DELETE /:id
DeleteMovieRequest(idToken) ==
    /\ LET r == handleDeleteMovie(movies, idToken)
       IN  /\ movies' = r.rows
           /\ last' = [op |-> "delete", id |-> idToken, status |-> r.status,
                       affectedRows |-> r.affectedRows]
    /\ UNCHANGED <<nextId, calls, log, probe>>

\* GET /
ListMoviesRequest(pageQ, limitQ) ==
    /\ last' = handleGetAllMovies(pageQ, limitQ)
    /\ UNCHANGED <<movies, nextId, calls, log, probe>>

Next ==
    \/ \E token \in IdentifierTokens : GetMovieRequest(token)
    \/ \E title \in CreateTitles : CreateMovieRequest(title)
    \/ \E idToken \in IdTokens, body \in UpdateBodies : UpdateMovieRequest(idToken, body)
    \/ \E idToken \in IdTokens : DeleteMovieRequest(idToken)
    \/ \E pageQ \in PageQueries, limitQ \in LimitQueries : ListMoviesRequest(pageQ, limitQ)

Spec == Init /\ [][Next]_vars

-----------------------------------------------------------------------------
(* createMovie from line 237 on, with updateMovieById and deleteMovieById,   *)
(* one call at a time on a table that starts empty: the base slug is the     *)
(* call's input                                                              *)

\* the rows the table may come to hold
MaxMovies == 3

\* the id of updateMovieById and deleteMovieById
MovieIds == 0..MaxMovies

\* the slugs stored
Slugs(rows) == {r.slug : r \in rows}

InitCreate ==
    /\ movies = {}
    /\ nextId = 1
    /\ calls = [c \in Callers |-> IdleCall]
    /\ last = NoResponse
    /\ log = <<>>
    /\ probe = NoProbe

\* createMovie(movieData), lines 237-280
CreateMovie(title, baseSlug) ==
    /\ nextId <= MaxMovies
    /\ LET finalSlug == ResolveLoop(movies, baseSlug, baseSlug, 1)
           params    == InsertParams(title, finalSlug)
       IN  /\ InsertError(movies, params) = ""
           /\ movies' = movies \cup {InsertedRow(nextId, params)}
           /\ nextId' = nextId + 1
           /\ last' = [op |-> "create", id |-> nextId, baseSlug |-> baseSlug, slug |-> finalSlug]
    /\ UNCHANGED <<calls, log, probe>>

\* updateMovieById(id, movieData)
UpdateMovie(id, movieData) ==
    /\ LET r == updateMovieById(movies, id, movieData)
       IN  /\ movies' = r.rows
           /\ last' = [op |-> "update", id |-> id, body |-> movieData,
                       affectedRows |-> r.affectedRows, before |-> movies]
    /\ UNCHANGED <<nextId, calls, log, probe>>

\* deleteMovieById(id)
DeleteMovie(id) ==
    /\ LET r == deleteMovieById(movies, id)
       IN  /\ movies' = r.rows
           /\ last' = [op |-> "delete", id |-> id, affectedRows |-> r.affectedRows]
    /\ UNCHANGED <<nextId, calls, log, probe>>

NextCreate ==
    \/ \E title \in CreateTitles \ {<<>>}, baseSlug \in BaseSlugs : CreateMovie(title, baseSlug)
    \/ \E id \in MovieIds, movieData \in UpdateBodies : UpdateMovie(id, movieData)
    \/ \E id \in MovieIds : DeleteMovie(id)

SpecCreate == InitCreate /\ [][NextCreate]_vars

-----------------------------------------------------------------------------
(* createMovie from line 237 on, called by two callers whose awaits interleave *)

\* line 237-238
BeginCreate(c, baseSlug) ==
    /\ calls[c].pc = "idle"
    /\ nextId <= MaxMovies
    /\ calls' = [calls EXCEPT ![c] = [IdleCall EXCEPT !.pc = "check", !.title = Inception,
                                                       !.baseSlug = baseSlug,
                                                       !.finalSlug = baseSlug,
                                                       !.slugCounter = 1]]
    /\ UNCHANGED <<movies, nextId, last, log, probe>>

\* lines 241-244 without slugCounter++
CheckSlugSameCounter(c) ==
    /\ calls[c].pc = "check"
    /\ calls' = [calls EXCEPT ![c] =
                    IF checkSlugExists(movies, calls[c].finalSlug)
                    THEN [calls[c] EXCEPT !.finalSlug = NextCandidate(calls[c].baseSlug,
                                                                      calls[c].slugCounter)]
                    ELSE [calls[c] EXCEPT !.pc = "insert"]]
    /\ UNCHANGED <<movies, nextId, last, log, probe>>

\* lines 241-244: one test of the loop condition, and the body when it holds
CheckSlug(c) ==
    /\ calls[c].pc = "check"
    /\ calls' = [calls EXCEPT ![c] =
                    IF checkSlugExists(movies, calls[c].finalSlug)
                    THEN [calls[c] EXCEPT !.finalSlug = NextCandidate(calls[c].baseSlug,
                                                                      calls[c].slugCounter),
                                          !.slugCounter = calls[c].slugCounter + 1]
                    ELSE [calls[c] EXCEPT !.pc = "insert"]]
    /\ UNCHANGED <<movies, nextId, last, log, probe>>

\* lines 246-294 and handleCreateMovie's response: the INSERT, and the status
\* the caller is sent
InsertMovie(c) ==
    /\ calls[c].pc = "insert"
    /\ LET params == InsertParams(calls[c].title, calls[c].finalSlug)
           code   == InsertError(movies, params)
       IN  IF code = ""
           THEN /\ movies' = movies \cup {InsertedRow(nextId, params)}
                /\ nextId' = nextId + 1
                /\ calls' = [calls EXCEPT ![c].pc = "done", ![c].status = ResponseCreated]
           ELSE /\ calls' = [calls EXCEPT ![c].pc = "done", ![c].dbError = code,
                                          ![c].status =
                                              handleCreateMovieCatch(createMovieRethrow(code, code))]
                /\ UNCHANGED <<movies, nextId>>
    /\ UNCHANGED <<last, log, probe>>

\* the caller is done with the response
ReturnCreate(c) ==
    /\ calls[c].pc = "done"
    /\ calls' = [calls EXCEPT ![c] = IdleCall]
    /\ UNCHANGED <<movies, nextId, last, log, probe>>

NextRace ==
    \/ \E c \in Callers, baseSlug \in BaseSlugs : BeginCreate(c, baseSlug)
    \/ \E c \in Callers : CheckSlug(c)
    \/ \E c \in Callers : InsertMovie(c)
    \/ \E c \in Callers : ReturnCreate(c)

SpecRace == InitCreate /\ [][NextRace]_vars

-----------------------------------------------------------------------------
(* The uniqueness loop of createMovie on its own: one caller, a table that   *)
(* no one writes while the checks run                                        *)

\* the highest suffix a stored slug carries
MaxSuffix == 3

\* the slugs the table may hold next to base slug b
SlugUniverse(b) == {b} \cup {NextCandidate(b, k) : k \in 1..MaxSuffix} \cup {TheDarkKnight}

\* a table holding the slugs E, out of SlugUniverse(b)
StoredRows(b, E) ==
    {[movie_id |-> IF s = b THEN 1
                   ELSE IF s = TheDarkKnight THEN 2
                   ELSE 2 + (CHOOSE k \in 1..MaxSuffix : s = NextCandidate(b, k)),
      slug |-> s, title |-> b] : s \in E}

InitResolve ==
    /\ \E b \in BaseSlugs : \E E \in SUBSET SlugUniverse(b) :
          /\ movies = StoredRows(b, E)
          /\ calls = [c \in Callers |->
                        IF c = "c1"
                        THEN [IdleCall EXCEPT !.pc = "check", !.title = Inception, !.baseSlug = b,
                                              !.finalSlug = b, !.slugCounter = 1]
                        ELSE IdleCall]
    /\ nextId = MaxSuffix + 3
    /\ last = NoResponse
    /\ log = <<>>
    /\ probe = NoProbe

NextResolve == CheckSlug("c1")

SpecResolve == InitResolve /\ [][NextResolve]_vars

\* the whole createMovie call of that caller: the loop, then the INSERT; an
\* async function goes on once the statement it awaits has been answered
NextFinish == CheckSlug("c1") \/ InsertMovie("c1")

SpecFinish == InitResolve /\ [][NextFinish]_vars /\ WF_vars(NextFinish)

-----------------------------------------------------------------------------
(* generateMovieSlug on its own *)

\* the characters of the short titles: a letter of each case, a digit, the
\* blank, the hyphen and a special character
TitleChars == {"a", "A", "1", Blank, Hyphen, "!"}

\* the length of the short titles
MaxTitleLen == 3

RECURSIVE StringsOfLen(_, _)
StringsOfLen(chars, n) ==
    IF n = 0 THEN {<<>>}
    ELSE {<<c>> \o t : c \in chars, t \in StringsOfLen(chars, n - 1)}

\* n letters
RECURSIVE Pad(_)
Pad(n) == IF n = 0 THEN <<>> ELSE <<"a">> \o Pad(n - 1)

\* titles whose slug is cut: a long word, then an ending
LongTitles ==
    {Pad(k) \o t : k \in (SlugMaxLen - 3)..(SlugMaxLen + 1),
                   t \in {<<>>, <<"-", "a">>, <<" ", "a", " ", "a">>, <<"!", " ", "a", "a", "a">>}}

SlugTitles == UNION {StringsOfLen(TitleChars, n) : n \in 0..MaxTitleLen} \cup LongTitles

\* Date.now(), in decimal
NowStrings == {<<"1", "7", "6", "2", "2", "0", "7", "2", "0", "0", "0", "0", "0">>, <<"1", "8", "9", "3", "4", "5", "6", "0", "0", "0", "0", "0", "0">>}

InitSlug ==
    /\ movies = {}
    /\ nextId = 1
    /\ calls = [c \in Callers |-> IdleCall]
    /\ last = NoResponse
    /\ log = <<>>
    /\ \E title \in SlugTitles, movieId \in {NoId, 7} :
          probe = [pc |-> "ready", title |-> title, movieId |-> movieId, out |-> <<>>]

\* one call of generateMovieSlug(title, movieId)
Generate(now) ==
    /\ probe.pc = "ready"
    /\ probe' = [probe EXCEPT !.pc = "done",
                              !.out = generateMovieSlug(probe.title, probe.movieId, now)]
    /\ UNCHANGED <<movies, nextId, calls, last, log>>

NextSlug == \E now \in NowStrings : Generate(now)

SpecSlug == InitSlug /\ [][NextSlug]_vars

-----------------------------------------------------------------------------
(* src/src/utils/pagination.js, lines 19-84: calculatePagination, for numbers *)

\* Math.max, Math.min
Max(a, b) == IF a >= b THEN a ELSE b

Min(a, b) == IF a <= b THEN a ELSE b

\* the integer division that throws the remainder away
TotalPagesFloor(totalCount, itemsPerPage) == totalCount \div itemsPerPage

\* Math.ceil(totalCount / itemsPerPage)
TotalPagesOf(totalCount, itemsPerPage) == (totalCount + itemsPerPage - 1) \div itemsPerPage

\* the first item counted from 0
StartItemZeroBased(totalCount, offset) == IF totalCount > 0 THEN offset ELSE 0

\* totalCount > 0 ? offset + 1 : 0
StartItemOf(totalCount, offset) == IF totalCount > 0 THEN offset + 1 ELSE 0

\* Math.min(offset + itemsPerPage, totalCount)
EndItemOf(offset, itemsPerPage, totalCount) == Min(offset + itemsPerPage, totalCount)

\* the difference of the two ends, without the + 1
ItemsBetween(startItem, endItem) == Max(0, endItem - startItem)

\* Math.max(0, endItem - startItem + 1)
ItemsOnPage(startItem, endItem) == Max(0, endItem - startItem + 1)

\* maxPages = 10
DefaultMaxPages == 10

\* calculatePageRange, lines 111-118: start, once adjusted near the end
WindowStartUnadjusted(currentPage, totalPages, maxPages) ==
    Max(1, currentPage - (maxPages \div 2))

WindowStart(currentPage, totalPages, maxPages) ==
    LET start == Max(1, currentPage - (maxPages \div 2))
        end   == Min(totalPages, start + maxPages - 1)
    IN  IF end = totalPages THEN Max(1, end - maxPages + 1) ELSE start

\* calculatePageRange(currentPage, totalPages, maxPages)
calculatePageRange(currentPage, totalPages, maxPages) ==
    IF totalPages <= maxPages
    THEN [start |-> 1, end |-> totalPages,
          pages |-> [i \in 1..Max(0, totalPages) |-> i],
          showEllipsisStart |-> FALSE, showEllipsisEnd |-> FALSE]
    ELSE LET first == Max(1, currentPage - (maxPages \div 2))
             end   == Min(totalPages, first + maxPages - 1)
             start == WindowStart(currentPage, totalPages, maxPages)
         IN  [start |-> start, end |-> end,
              pages |-> [i \in 1..Max(0, end - start + 1) |-> start + i - 1],
              showEllipsisStart |-> start > 1,
              showEllipsisEnd |-> end < totalPages]

\* calculatePagination({page, limit, totalItems}): the members that are numbers,
\* flags or the page range (nextPage and prevPage are 0 for null)
calculatePagination(page, limit, totalItems) ==
    LET currentPage  == Max(1, page)
        itemsPerPage == Max(1, limit)
        totalCount   == Max(0, totalItems)
        totalPages   == TotalPagesOf(totalCount, itemsPerPage)
        offset       == (currentPage - 1) * itemsPerPage
        startItem    == StartItemOf(totalCount, offset)
        endItem      == EndItemOf(offset, itemsPerPage, totalCount)
    IN  [currentPage |-> currentPage,
         totalPages |-> totalPages,
         totalItems |-> totalCount,
         itemsPerPage |-> itemsPerPage,
         hasNextPage |-> currentPage < totalPages,
         hasPrevPage |-> currentPage > 1,
         hasFirstPage |-> currentPage > 1,
         hasLastPage |-> currentPage < totalPages,
         nextPage |-> IF currentPage < totalPages THEN currentPage + 1 ELSE 0,
         prevPage |-> IF currentPage > 1 THEN currentPage - 1 ELSE 0,
         firstPage |-> 1,
         lastPage |-> totalPages,
         startItem |-> startItem,
         endItem |-> endItem,
         itemsOnCurrentPage |-> ItemsOnPage(startItem, endItem),
         offset |-> offset,
         pageRange |-> calculatePageRange(currentPage, totalPages, DefaultMaxPages),
         isEmpty |-> totalCount = 0,
         isFirstPage |-> currentPage = 1,
         isLastPage |-> currentPage = totalPages]

-----------------------------------------------------------------------------
(* calculatePagination on its own: one call, or one call per page of a listing *)

\* the highest page number asked for
MaxPageNo == 5

\* the highest limit asked for
MaxItemsPerPage == 4

\* the highest number of items
MaxTotalItems == 12

\* the calls of the documentation: page 2 of 95 items by 10, and an empty listing
DocumentedCalls ==
    {[page |-> 2, limit |-> 10, totalItems |-> 95], [page |-> 1, limit |-> 10, totalItems |-> 0]}

PaginationCalls ==
    [page : 0..MaxPageNo, limit : 0..MaxItemsPerPage, totalItems : 0..MaxTotalItems]
        \cup DocumentedCalls

InitPage ==
    /\ movies = {}
    /\ nextId = 1
    /\ calls = [c \in Callers |-> IdleCall]
    /\ last = NoResponse
    /\ log = <<>>
    /\ \E call \in PaginationCalls :
          \/ probe = [pc |-> "ready", page |-> call.page, limit |-> call.limit,
                      totalItems |-> call.totalItems, sum |-> 0,
                      out |-> calculatePagination(1, call.limit, call.totalItems)]
          \/ /\ call.page = 0
             /\ call.limit >= 1
             /\ probe = [pc |-> "walk", page |-> 0, limit |-> call.limit,
                         totalItems |-> call.totalItems, sum |-> 0,
                         out |-> calculatePagination(1, call.limit, call.totalItems)]

\* one call of calculatePagination
Calculate ==
    /\ probe.pc = "ready"
    /\ probe' = [probe EXCEPT !.pc = "done",
                              !.out = calculatePagination(probe.page, probe.limit, probe.totalItems)]
    /\ UNCHANGED <<movies, nextId, calls, last, log>>

\* a caller walking the pages 1..totalPages: the call for the next page, its
\* itemsOnCurrentPage added up
WalkPage ==
    /\ probe.pc = "walk"
    /\ probe.page < probe.out.totalPages
    /\ LET out == calculatePagination(probe.page + 1, probe.limit, probe.totalItems)
       IN  probe' = [probe EXCEPT !.page = probe.page + 1,
                                  !.out = out,
                                  !.sum = probe.sum + out.itemsOnCurrentPage]
    /\ UNCHANGED <<movies, nextId, calls, last, log>>

\* the caller has been through the last page
WalkEnd ==
    /\ probe.pc = "walk"
    /\ probe.page >= probe.out.totalPages
    /\ probe' = [probe EXCEPT !.pc = "walked"]
    /\ UNCHANGED <<movies, nextId, calls, last, log>>

NextPage == Calculate \/ WalkPage \/ WalkEnd

SpecPage == InitPage /\ [][NextPage]_vars

-----------------------------------------------------------------------------
(* SpecStore: createMovie with generateMovieSlug(title) as its base slug, and *)
(* lookups by the slugs it stored.                                            *)

\* titles whose slug is plain, digits, cut at 50 characters, or the fallback
StoreTitles ==
    {<<"a">>, <<"A", "!", "-">>, <<"1">>, <<"a", " ", "a">>, <<"!">>, <<" ", "-", " ">>,
     Pad(SlugMaxLen + 1), Pad(SlugMaxLen - 2) \o <<" ", "a", " ", "a">>}

\* createMovie(movieData), the base slug taken from generateMovieSlug
StoreMovie(title, now) ==
    /\ ~Falsy(JsStr(title))
    /\ CreateMovie(title, generateMovieSlug(title, NoId, now))

\* GET /:identifier with the slug of a stored movie
GetBySlug(row) ==
    /\ row \in movies
    /\ GetMovieRequest(row.slug)

NextStore ==
    \/ \E title \in StoreTitles, now \in NowStrings : StoreMovie(title, now)
    \/ \E row \in movies : GetBySlug(row)

SpecStore == InitCreate /\ [][NextStore]_vars

-----------------------------------------------------------------------------
(* calculatePageRange on its own *)

\* the highest number of pages
MaxTotalPages == 13

\* the values of maxPages: short windows, and the default
WindowSizes == {1, 2, 3, 4, DefaultMaxPages}

InitRange ==
    /\ movies = {}
    /\ nextId = 1
    /\ calls = [c \in Callers |-> IdleCall]
    /\ last = NoResponse
    /\ log = <<>>
    /\ \E currentPage \in 1..MaxTotalPages, totalPages \in 0..MaxTotalPages,
          maxPages \in WindowSizes :
          probe = [pc |-> "ready", currentPage |-> currentPage, totalPages |-> totalPages,
                   maxPages |-> maxPages, out |-> calculatePageRange(1, 0, maxPages)]

\* one call of calculatePageRange
CalculateRange ==
    /\ probe.pc = "ready"
    /\ probe' = [probe EXCEPT !.pc = "done",
                              !.out = calculatePageRange(probe.currentPage, probe.totalPages,
                                                         probe.maxPages)]
    /\ UNCHANGED <<movies, nextId, calls, last, log>>

NextRange == CalculateRange

SpecRange == InitRange /\ [][NextRange]_vars

-----------------------------------------------------------------------------
(* getAllMovies of the service, statement by statement.  A statement is the   *)
(* conditions of its WHERE clause joined by AND, the values bound to its '?'  *)
(* in order, and for the page statement the ORDER BY column and keyword and   *)
(* whether LIMIT ? and OFFSET ? were appended.                                *)

ColTitle == <<"t", "i", "t", "l", "e">>

ColReleaseYear == <<"r", "e", "l", "e", "a", "s", "e", "_", "y", "e", "a", "r">>

ColRating == <<"r", "a", "t", "i", "n", "g">>

ColCreatedAt == <<"c", "r", "e", "a", "t", "e", "d", "_", "a", "t">>

ColViewCount == <<"v", "i", "e", "w", "_", "c", "o", "u", "n", "t">>

validSortFields == <<ColTitle, ColReleaseYear, ColRating, ColCreatedAt, ColViewCount>>

\* validSortFields.includes(options.sortBy) ? options.sortBy : 'created_at'
SortByUnchecked(options) ==
    IF options.sortBy.k = "str" THEN options.sortBy.s ELSE ColCreatedAt

EffectiveSortBy(options) ==
    IF options.sortBy.k = "str"
       /\ \E i \in 1..Len(validSortFields) : validSortFields[i] = options.sortBy.s
    THEN options.sortBy.s
    ELSE ColCreatedAt

\* options.sortOrder === 'asc' ? 'ASC' : 'DESC'
SortOrderIgnoringCase(options) ==
    IF options.sortOrder.k = "str" /\ LowerCase(options.sortOrder.s) = <<"a", "s", "c">>
    THEN "ASC"
    ELSE "DESC"

EffectiveSortOrder(options) ==
    IF options.sortOrder.k = "str" /\ options.sortOrder.s = <<"a", "s", "c">>
    THEN "ASC"
    ELSE "DESC"

\* `%${options.search}%`
SearchTerm(search) == JsStr(<<"%">> \o search.s \o <<"%">>)

\* conditions, lines 64-92: one entry per filter that is truthy
FilterConditions(options) ==
       (IF ~Falsy(options.genre) THEN <<"genre">> ELSE <<>>)
    \o (IF ~Falsy(options.director) THEN <<"director">> ELSE <<>>)
    \o (IF ~Falsy(options.year) THEN <<"year">> ELSE <<>>)
    \o (IF ~Falsy(options.search) THEN <<"search">> ELSE <<>>)

\* queryParams, lines 64-92
FilterParams(options) ==
       (IF ~Falsy(options.genre) THEN <<options.genre>> ELSE <<>>)
    \o (IF ~Falsy(options.director) THEN <<options.director>> ELSE <<>>)
    \o (IF ~Falsy(options.year) THEN <<options.year>> ELSE <<>>)
    \o (IF ~Falsy(options.search)
        THEN <<SearchTerm(options.search), SearchTerm(options.search),
               SearchTerm(options.search)>>
        ELSE <<>>)

\* countQuery with the values bound when it is executed (line 112)
CountStatement(options) ==
    [conditions |-> FilterConditions(options), params |-> FilterParams(options)]

\* query with the values bound when it is executed (lines 105-128)
PageStatement(options, validated) ==
    [conditions |-> FilterConditions(options),
     params     |-> FilterParams(options) \o <<JsInt(validated.limit)>>
                    \o (IF OffsetOf(validated) # 0 THEN <<JsInt(OffsetOf(validated))>>
                        ELSE <<>>),
     sortBy     |-> EffectiveSortBy(options),
     sortOrder  |-> EffectiveSortOrder(options),
     hasLimit   |-> validated.limit # 0,
     hasOffset  |-> validated.limit # 0 /\ OffsetOf(validated) # 0]

\* value LIKE pattern, for a pattern '%term%'
Like(value, pattern) ==
    LET term == SubSeq(pattern, 2, Len(pattern) - 1)
    IN  \E i \in 0..(Len(value) - Len(term)) : SubSeq(value, i + 1, i + Len(term)) = term

\* the number of '?' of a condition
Placeholders(condition) == IF condition = "search" THEN 3 ELSE 1

\* a condition of the WHERE clause, its '?' bound to the first values of params
ConditionHolds(row, condition, params) ==
    CASE condition = "genre"    -> \E g \in row.genres : g = params[1].s
      [] condition = "director" -> row.director = params[1].s
      [] condition = "year"     -> row.release_year = params[1].v
      [] OTHER                  -> \/ Like(row.title, params[1].s)
                                   \/ Like(row.director, params[2].s)
                                   \/ Like(row.overview, params[3].s)

\* the WHERE clause: conditions.join(' AND ')
RECURSIVE WhereHolds(_, _, _)
WhereHolds(row, conditions, params) ==
    IF conditions = <<>> THEN TRUE
    ELSE /\ ConditionHolds(row, Head(conditions), params)
         /\ WhereHolds(row, Tail(conditions), Drop(params, Placeholders(Head(conditions))))

\* the values left for LIMIT ? and OFFSET ? once the WHERE clause took its own
RECURSIVE ParamsAfterWhere(_, _)
ParamsAfterWhere(conditions, params) ==
    IF conditions = <<>> THEN params
    ELSE ParamsAfterWhere(Tail(conditions), Drop(params, Placeholders(Head(conditions))))

\* the rows a statement selects
SelectedRows(rows, statement) ==
    {m \in rows : WhereHolds(m, statement.conditions, statement.params)}

\* SELECT COUNT(*) as total
ExecCount(rows, statement) == Cardinality(SelectedRows(rows, statement))

\* the order of the characters in the collation
CharOrder ==
    <<" ", "0", "1", "2", "3", "4", "5", "6", "7", "8", "9", "a", "b", "c", "d", "e", "g", "h",
      "i", "k", "m", "n", "o", "p", "r", "s", "t", "u", "v">>

CharRank(c) == CHOOSE i \in 1..Len(CharOrder) : CharOrder[i] = c

RECURSIVE StringBefore(_, _)
StringBefore(a, b) ==
    IF b = <<>> THEN FALSE
    ELSE IF a = <<>> THEN TRUE
    ELSE IF Head(a) = Head(b) THEN StringBefore(Tail(a), Tail(b))
    ELSE CharRank(Head(a)) < CharRank(Head(b))

\* ORDER BY column: whether row a sorts before row b in ascending order
RowBefore(a, b, column) ==
    CASE column = ColTitle       -> StringBefore(a.title, b.title)
      [] column = ColReleaseYear -> a.release_year < b.release_year
      [] column = ColRating      -> a.rating < b.rating
      [] column = ColViewCount   -> a.view_count < b.view_count
      [] OTHER                   -> a.created_at < b.created_at

RECURSIVE OrderBy(_, _, _)
OrderBy(rows, column, keyword) ==
    IF rows = {} THEN <<>>
    ELSE LET first == CHOOSE m \in rows :
                          \A o \in rows \ {m} :
                              IF keyword = "ASC" THEN RowBefore(m, o, column)
                              ELSE RowBefore(o, m, column)
         IN  <<first>> \o OrderBy(rows \ {first}, column, keyword)

\* the page statement executed: the rows returned, in order; a column the
\* table does not have is refused
ExecPage(rows, statement) ==
    LET ordered == OrderBy(SelectedRows(rows, statement), statement.sortBy, statement.sortOrder)
        tail    == ParamsAfterWhere(statement.conditions, statement.params)
        skipped == IF statement.hasOffset THEN Drop(ordered, tail[2].v) ELSE ordered
    IN  IF \A i \in 1..Len(validSortFields) : validSortFields[i] # statement.sortBy
        THEN [error |-> "ER_BAD_FIELD_ERROR", rows |-> <<>>]
        ELSE [error |-> "",
              rows  |-> IF statement.hasLimit
                        THEN SubSeq(skipped, 1, Min(tail[1].v, Len(skipped)))
                        ELSE skipped]

\* validatedPagination of getAllMovies (lines 30-34)
ValidatedPagination(options) == validatePaginationParams(options.page, options.limit)

\* lines 130-153: what the call gives back once the page statement has run:
\* the members of the object returned and its movies, or the error thrown
getAllMoviesOutcome(options, executed) ==
    LET thrown == IF executed.error # "" THEN executed.error ELSE getAllMoviesLateError
    IN  IF executed.error = "" /\ ~options.includePagination
        THEN [threw |-> FALSE, message |-> "", returned |-> {"movies"},
              movies |-> executed.rows]
        ELSE [threw    |-> TRUE,
              message  |-> Prop(createErrorResponse(Primitive("database"), thrown), "message"),
              returned |-> {},
              movies   |-> <<>>]

-----------------------------------------------------------------------------
(* SpecList: one getAllMovies call, its count statement and its page          *)
(* statement executed in two steps, while other requests insert and delete    *)
(* rows; writeSinceCount records that one did after the count statement.      *)

\* the rows other requests insert and delete; no two agree on a sort column
ListRows ==
    {[movie_id |-> 1, title |-> <<"a", "b">>, director |-> <<"d">>, release_year |-> 2010,
      overview |-> <<"o">>, genres |-> {<<"g">>}, rating |-> 3, created_at |-> 1,
      view_count |-> 2],
     [movie_id |-> 2, title |-> <<"b">>, director |-> <<"d", "a">>, release_year |-> 2011,
      overview |-> <<"o">>, genres |-> {<<"g">>, <<"h">>}, rating |-> 1, created_at |-> 2,
      view_count |-> 3],
     [movie_id |-> 3, title |-> <<"c">>, director |-> <<"d">>, release_year |-> 2009,
      overview |-> <<"e">>, genres |-> {}, rating |-> 2, created_at |-> 3,
      view_count |-> 1]}

\* getAllMovies() without any option; includePagination is whether the option
\* is other than false
NoOptions ==
    [page |-> JsUndef, limit |-> JsUndef, offset |-> JsUndef, genre |-> JsUndef,
     director |-> JsUndef, year |-> JsUndef, search |-> JsUndef, sortBy |-> JsUndef,
     sortOrder |-> JsUndef, includePagination |-> TRUE]

PaginationOptions ==
    {[NoOptions EXCEPT !.page = page, !.limit = limit, !.offset = offset] :
        page \in {JsUndef, JsInt(2)},
        limit \in {JsUndef, JsInt(2), JsInt(100), JsInt(0), JsStr(<<"1", "0", "1">>),
                   JsStr(<<"a">>)},
        offset \in {JsUndef, JsInt(5), JsInt(0 - 1)}}

SortOptions ==
    {[NoOptions EXCEPT !.sortBy = sortBy, !.sortOrder = sortOrder,
                       !.includePagination = includePagination] :
        sortBy \in {JsUndef, JsStr(<<"y", "e", "a", "r">>)}
                   \cup {JsStr(validSortFields[i]) : i \in 1..Len(validSortFields)},
        sortOrder \in {JsUndef, JsStr(<<"a", "s", "c">>), JsStr(<<"A", "S", "C">>),
                       JsStr(<<"A", "s", "c">>), JsStr(<<"d", "e", "s", "c">>),
                       JsStr(<<"U", "P">>)},
        includePagination \in BOOLEAN}

FilterOptions ==
    {[NoOptions EXCEPT !.genre = genre, !.director = director, !.year = year,
                       !.search = search] :
        genre \in {JsUndef, JsStr(<<"g">>)},
        director \in {JsUndef, JsStr(<<>>), JsStr(<<"d">>)},
        year \in {JsUndef, JsInt(0), JsNaN, JsInt(2010)},
        search \in {JsUndef, JsStr(<<>>), JsStr(<<"a">>), JsStr(<<"e">>)}}

ListOptions == PaginationOptions \cup SortOptions \cup FilterOptions

NoStatement == [conditions |-> <<>>, params |-> <<>>]

InitList ==
    /\ movies = {m \in ListRows : m.movie_id # 3}
    /\ nextId = 1
    /\ calls = [c \in Callers |-> IdleCall]
    /\ last = NoResponse
    /\ log = <<>>
    /\ \E options \in ListOptions :
          probe = [pc |-> "ready", options |-> options, countStatement |-> NoStatement,
                   totalItems |-> 0, writeSinceCount |-> FALSE,
                   pageStatement |-> NoStatement, storageError |-> "", threw |-> FALSE,
                   message |-> "", returned |-> {}, movies |-> <<>>]

\* lines 28-113: the statements are built and the count statement is executed
ListCount ==
    /\ probe.pc = "ready"
    /\ probe.options.includePagination
    /\ probe' = [probe EXCEPT !.pc = "counted",
                              !.countStatement = CountStatement(probe.options),
                              !.totalItems = ExecCount(movies, CountStatement(probe.options))]
    /\ UNCHANGED <<movies, nextId, calls, last, log>>

\* lines 115-153: the page statement is executed and the call returns or throws
ListPage ==
    /\ probe.pc = (IF probe.options.includePagination THEN "counted" ELSE "ready")
    /\ LET statement == PageStatement(probe.options, ValidatedPagination(probe.options))
           executed  == ExecPage(movies, statement)
           outcome   == getAllMoviesOutcome(probe.options, executed)
       IN  probe' = [probe EXCEPT !.pc = "done",
                                  !.pageStatement = statement,
                                  !.storageError = executed.error,
                                  !.threw = outcome.threw,
                                  !.message = outcome.message,
                                  !.returned = outcome.returned,
                                  !.movies = outcome.movies]
    /\ UNCHANGED <<movies, nextId, calls, last, log>>

\* another request's INSERT, before the call returns
InsertRow(row) ==
    /\ probe.pc # "done"
    /\ row \notin movies
    /\ movies' = movies \cup {row}
    /\ probe' = [probe EXCEPT !.writeSinceCount = (probe.pc = "counted")]
    /\ UNCHANGED <<nextId, calls, last, log>>

\* another request's DELETE, before the call returns
DeleteRow(row) ==
    /\ probe.pc # "done"
    /\ row \in movies
    /\ movies' = movies \ {row}
    /\ probe' = [probe EXCEPT !.writeSinceCount = (probe.pc = "counted")]
    /\ UNCHANGED <<nextId, calls, last, log>>

NextList ==
    \/ ListCount
    \/ ListPage
    \/ \E row \in ListRows : InsertRow(row)
    \/ \E row \in ListRows : DeleteRow(row)

SpecList == InitList /\ [][NextList]_vars

-----------------------------------------------------------------------------
(* SpecWalk: a caller fetching the pages 1..totalPages of one listing, one   *)
(* getAllMovies call per page, while nothing is written.                      *)

\* the listings walked: a limit, a sort, a filter, with and without metadata
WalkOptions ==
    {[NoOptions EXCEPT !.limit = JsInt(limit), !.sortBy = sortBy, !.sortOrder = sortOrder,
                       !.director = director, !.includePagination = includePagination] :
        limit \in 1..3,
        sortBy \in {JsUndef, JsStr(ColTitle)},
        sortOrder \in {JsUndef, JsStr(<<"a", "s", "c">>)},
        director \in {JsUndef, JsStr(<<"d">>)},
        includePagination \in BOOLEAN}

InitWalk ==
    /\ movies \in SUBSET ListRows
    /\ nextId = 1
    /\ calls = [c \in Callers |-> IdleCall]
    /\ last = NoResponse
    /\ log = <<>>
    /\ \E options \in WalkOptions :
          probe = [pc |-> "ready", options |-> options, totalItems |-> 0, totalPages |-> 0,
                   page |-> 0, pages |-> <<>>, threw |-> FALSE]

\* the number of pages of the listing: the count statement (line 112) and
\* totalPages = Math.ceil(totalCount / itemsPerPage)
WalkCount ==
    /\ probe.pc = "ready"
    /\ LET total == ExecCount(movies, CountStatement(probe.options))
       IN  probe' = [probe EXCEPT !.pc = "walking",
                                  !.totalItems = total,
                                  !.totalPages = TotalPagesOf(total, ValidatedPagination(probe.options).limit)]
    /\ UNCHANGED <<movies, nextId, calls, last, log>>

\* getAllMovies({...options, page: page + 1}): the next page of the listing
WalkFetch ==
    /\ probe.pc = "walking"
    /\ probe.page < probe.totalPages
    /\ LET options   == [probe.options EXCEPT !.page = JsInt(probe.page + 1)]
           statement == PageStatement(options, ValidatedPagination(options))
           outcome   == getAllMoviesOutcome(options, ExecPage(movies, statement))
       IN  probe' = [probe EXCEPT !.page = probe.page + 1,
                                  !.pages = Append(probe.pages, outcome.movies),
                                  !.threw = probe.threw \/ outcome.threw]
    /\ UNCHANGED <<movies, nextId, calls, last, log>>

\* the caller has fetched the last page
WalkDone ==
    /\ probe.pc = "walking"
    /\ probe.page >= probe.totalPages
    /\ probe' = [probe EXCEPT !.pc = "walked"]
    /\ UNCHANGED <<movies, nextId, calls, last, log>>

NextWalk == WalkCount \/ WalkFetch \/ WalkDone

SpecWalk == InitWalk /\ [][NextWalk]_vars

-----------------------------------------------------------------------------
(* SpecPost: POST / with bodies that break the rules of validateMovieData.    *)

\* a body every rule accepts
ValidBody == MovieBody(Inception)

\* bodies whose required fields, year, duration, rating and trailer break rules
RuleBodies ==
    {[ValidBody EXCEPT !.title = title, !.director = director, !.year = year,
                       !.genre = genre, !.duration_minutes = duration,
                       !.rating = rating, !.trailer_url = trailer] :
        title \in {JsUndef, JsStr(<<" ">>), JsStr(Inception)},
        director \in {JsUndef, JsStr(<<"a">>)},
        year \in {JsUndef, JsInt(1899), JsInt(1900), JsInt(CurrentYear + 10),
                  JsInt(CurrentYear + 11), JsStr(<<"2", "0", "1", "0">>)},
        genre \in {JsInt(1), JsStr(<<"a">>)},
        duration \in {JsUndef, JsInt(0), JsInt(120)},
        rating \in {JsUndef, JsInt(0 - 1), JsInt(10), JsInt(11)},
        trailer \in {JsUndef, JsStr(<<>>), JsStr(<<"a">>), JsStr(<<"a", ":", "a">>)}}

\* bodies whose other URLs are malformed
UrlBodies ==
    {[ValidBody EXCEPT !.video_url = video, !.poster_landscape = landscape,
                       !.poster_portrait = portrait] :
        video \in {JsUndef, JsStr(<<"a">>), JsInt(1)},
        landscape \in {JsUndef, JsStr(<<"a">>)},
        portrait \in {JsUndef, JsStr(<<"a">>), JsStr(<<"a", ":", "a">>)}}

PostBodies == RuleBodies \cup UrlBodies

InitPost ==
    /\ movies \in {SeedRows, {}}
    /\ nextId = FirstFreeId
    /\ calls = [c \in Callers |-> IdleCall]
    /\ last = NoResponse
    /\ log = <<>>
    /\ \E body \in PostBodies :
          probe = [pc |-> "ready", body |-> body, before |-> {},
                   validation |-> [isValid |-> TRUE, errors |-> <<>>]]

\* POST / with the body of probe; probe keeps the table the request found and
\* what validateMovieData made of the body
PostMovie ==
    /\ probe.pc = "ready"
    /\ \E baseSlug \in BaseSlugs :
          LET done == handleCreateMovie(movies, nextId, probe.body, baseSlug)
          IN  /\ movies' = done.rows
              /\ nextId' = done.nextId
              /\ last' = [op |-> "create", title |-> probe.body.title.s,
                          status |-> done.status, slug |-> done.slug,
                          statements |-> done.statements]
    /\ probe' = [probe EXCEPT !.pc = "posted", !.before = movies,
                              !.validation = validateMovieData(probe.body)]
    /\ UNCHANGED <<calls, log>>

NextPost == PostMovie

SpecPost == InitPost /\ [][NextPost]_vars

-----------------------------------------------------------------------------
(* The two classifiers of a failure: errorMessages.getHttpStatusCode           *)
(* (src/src/utils/pagination.js, lines 533-573) and the errorHandler           *)
(* middleware (src/src/middleware/errorHandler.js).  An error is its code, its *)
(* name, its status and the phrases its message holds among those the         *)
(* classifiers look for.                                                       *)

\* error.code || error.name || ''
ErrorCodeOf(error) == IF error.code # "" THEN error.code ELSE error.name

\* errorMessage.includes(phrase)
MessageIncludes(error, phrase) == phrase \in error.phrases

\* getHttpStatusCode(error, context)
getHttpStatusCode(error) ==
    LET errorCode == ErrorCodeOf(error)
    IN  IF errorCode = "ValidationError" \/ MessageIncludes(error, "validation") THEN 400
        ELSE IF errorCode = "ER_DUP_ENTRY" THEN 409
        ELSE IF errorCode \in {"JsonWebTokenError", "TokenExpiredError"} THEN 401
        ELSE IF MessageIncludes(error, "not found") \/ MessageIncludes(error, "does not exist") THEN 404
        ELSE IF MessageIncludes(error, "permission") \/ MessageIncludes(error, "forbidden") THEN 403
        ELSE IF MessageIncludes(error, "File too large") \/ MessageIncludes(error, "LIMIT_") THEN 413
        ELSE IF errorCode \in {"ECONNREFUSED", "ER_ACCESS_DENIED_ERROR"} THEN 503
        ELSE IF errorCode = "ETIMEDOUT" THEN 504
        ELSE 500

\* errorHandler(err, req, res, next): the status sent; each rule that applies
\* overrides the ones before it (the code 11000 is a number, written "11000";
\* a ValidationError carries its errors object)
errorHandler(err) ==
    LET s0 == IF err.status # NoStatus THEN err.status ELSE 500
        s1 == IF err.name = "CastError" THEN 404 ELSE s0
        s2 == IF err.code = "11000" THEN 400 ELSE s1
        s3 == IF err.name = "ValidationError" THEN 400 ELSE s2
        s4 == IF err.code = "ER_DUP_ENTRY" THEN 400 ELSE s3
    IN  IF err.code = "ER_NO_SUCH_TABLE" THEN 500 ELSE s4

\* the failures classified
ErrorCodes ==
    {"", "ER_DUP_ENTRY", "ECONNREFUSED", "ER_ACCESS_DENIED_ERROR", "ETIMEDOUT", "ER_NO_SUCH_TABLE",
     "11000"}

ErrorNames == {"Error", "ValidationError", "JsonWebTokenError", "TokenExpiredError", "CastError"}

ErrorPhrases == {{}, {"validation"}, {"not found"}, {"permission"}, {"File too large"}}

Failures == [code : ErrorCodes, name : ErrorNames, phrases : ErrorPhrases, status : {NoStatus, 404}]

InitError ==
    /\ movies = {}
    /\ nextId = 1
    /\ calls = [c \in Callers |-> IdleCall]
    /\ last = NoResponse
    /\ log = <<>>
    /\ \E error \in Failures :
          probe = [pc |-> "ready", error |-> error, status |-> NoStatus, handled |-> NoStatus]

\* the failure goes through both classifiers
ClassifyError ==
    /\ probe.pc = "ready"
    /\ probe' = [probe EXCEPT !.pc = "done",
                              !.status = getHttpStatusCode(probe.error),
                              !.handled = errorHandler(probe.error)]
    /\ UNCHANGED <<movies, nextId, calls, last, log>>

NextError == ClassifyError

SpecError == InitError /\ [][NextError]_vars

-----------------------------------------------------------------------------
(* Properties *)

\* C1: in every state reached by createMovie, updateMovieById and
\* deleteMovieById calls made one at a time, every stored movie has a slug,
\* no two stored movies share a slug and no two share a movie_id.
C1_SlugAndIdUnique ==
    /\ \A r \in movies : r.slug # NullSlug /\ r.slug # <<>>
    /\ \A r1, r2 \in movies : (r1.slug = r2.slug \/ r1.movie_id = r2.movie_id) => r1 = r2

\* a create that had to take a suffix, after an update changed a title and a
\* delete removed a row
C1_Witness ==
    /\ last.op = "create"
    /\ last.slug # last.baseSlug
    /\ Cardinality(movies) >= 2
    /\ \E r \in movies : r.title # Inception
    /\ nextId - 1 > Cardinality(movies)

\* C2: for every base slug b and every set E of stored slugs, the loop ends
\* with a final slug that is not in E, and with b itself when b is not in E.
C2_ResolvedSlugIsFree ==
    calls["c1"].pc = "insert" =>
        /\ calls["c1"].finalSlug \notin Slugs(movies)
        /\ (calls["c1"].baseSlug \notin Slugs(movies) => calls["c1"].finalSlug = calls["c1"].baseSlug)

\* the loop ended after two candidates were found taken
C2_Witness ==
    /\ calls["c1"].pc = "insert"
    /\ calls["c1"].baseSlug \in Slugs(movies)
    /\ calls["c1"].finalSlug = NextCandidate(calls["c1"].baseSlug, 2)

\* C3: when two createMovie calls pass the existence check before either
\* insert commits, the table never holds a slug twice and the call whose
\* insert is refused with a duplicate-entry error is answered with status 409.
C3_DuplicateSurfacesAs409 ==
    /\ \A r1, r2 \in movies : r1.slug = r2.slug => r1 = r2
    /\ \A c \in Callers :
          (calls[c].pc = "done" /\ calls[c].dbError = "ER_DUP_ENTRY") => calls[c].status = 409

\* C4: from a table holding neither inception nor inception-1, two successive
\* create requests titled "Inception" are both answered 201 and store the
\* slugs inception and inception-1, in that order.
C4_InceptionTwice ==
    (/\ Len(log) = 2
     /\ log[1].title = Inception
     /\ log[2].title = Inception) =>
        /\ log[1].status = ResponseCreated
        /\ log[1].slug = <<"i", "n", "c", "e", "p", "t", "i", "o", "n">>
        /\ log[2].status = ResponseCreated
        /\ log[2].slug = <<"i", "n", "c", "e", "p", "t", "i", "o", "n", "-", "1">>
        /\ {<<"i", "n", "c", "e", "p", "t", "i", "o", "n">>, <<"i", "n", "c", "e", "p", "t", "i", "o", "n", "-", "1">>} \subseteq Slugs(movies)

\* C5: a lookup by the slug of a stored movie returns that movie, and so does
\* a lookup by its movie_id.
C5_LookupReturnsOwner ==
    last.op = "get" =>
        \A r \in movies :
            /\ last.token = r.slug => last.found = r
            /\ last.token = DecStr(r.movie_id) => last.found = r

\* what the identifier classifier is to answer for a token
ExpectedKind(token) ==
    IF token # <<>> /\ AllDigits(token) /\ DigitsValue(token) > 0 THEN "ID"
    ELSE IF MatchesSlugPattern(token) /\ Len(token) <= SlugPatternMaxLen
            /\ ~(AllDigits(token)) THEN "slug"
    ELSE "invalid"

\* C6: a token is taken as a numeric ID iff it is a strictly positive integer
\* literal, as a slug iff it is otherwise hyphen-separated lower-case
\* alphanumeric segments of at most 100 characters, and as invalid otherwise.
C6_Classification ==
    last.op = "get" => last.kind = ExpectedKind(last.token)

\* C7: updateMovieById changes no slug: every row has after the call the slug
\* it had before it, whatever the payload holds.
C7_UpdateKeepsSlug ==
    last.op = "update" =>
        {<<r.movie_id, r.slug>> : r \in movies} = {<<r.movie_id, r.slug>> : r \in last.before}

\* an update that changed the title of a row, with a slug in its payload
C7_Witness ==
    /\ last.op = "update"
    /\ last.affectedRows = 1
    /\ {"title", "slug"} \subseteq DOMAIN last.body
    /\ \E r \in movies, b \in last.before :
          /\ r.movie_id = last.id
          /\ b.movie_id = last.id
          /\ r.title = last.body.title
          /\ b.title # r.title
          /\ r.slug # last.body.slug

\* C8: for a non-empty title and no movie id, generateMovieSlug returns only
\* characters of a-z, 0-9 and '-', no hyphen first or last, and at most 50
\* characters.
C8_SlugShape ==
    (probe.pc = "done" /\ probe.title # <<>> /\ probe.movieId = NoId) =>
        /\ \A i \in 1..Len(probe.out) : IsLowerAlnum(probe.out[i]) \/ probe.out[i] = Hyphen
        /\ probe.out # <<>> => (probe.out[1] # Hyphen /\ probe.out[Len(probe.out)] # Hyphen)
        /\ Len(probe.out) <= SlugMaxLen

\* a title longer than the limit whose slug was cut back to a word boundary
C8_Witness ==
    /\ probe.pc = "done"
    /\ probe.movieId = NoId
    /\ Len(probe.title) > SlugMaxLen
    /\ probe.out # <<>>
    /\ Len(probe.out) < SlugMaxLen

\* the rows a page statement skips
SkippedRows(query) == IF query.hasOffset THEN query.offset ELSE 0

\* C9: the page statement of a listing request for page p and limit l carries
\* LIMIT l and skips (p-1)*l rows.
C9_PageOffset ==
    last.op = "list" =>
        \A i \in 1..Len(last.queries) :
            last.queries[i].q = "page" =>
                /\ last.queries[i].limit = last.limit
                /\ SkippedRows(last.queries[i]) = (last.page - 1) * last.limit

\* whether a query parameter is given and is not a positive integer literal
\* (of at most max, when max is not 0)
BadParameter(x, max) ==
    /\ x.k # "undef"
    /\ \/ x.k # "str"
       \/ x.s = <<>>
       \/ ~AllDigits(x.s)
       \/ DigitsValue(x.s) < 1
       \/ (max # 0 /\ DigitsValue(x.s) > max)

\* C10: a listing request with a bad page or limit is answered with a
\* validation error naming every bad parameter, and hands no statement to
\* storage.
C10_BadPaginationRejected ==
    (last.op = "list" /\ (BadParameter(last.pageQ, 0) \/ BadParameter(last.limitQ, MaxLimit))) =>
        /\ last.status = 400
        /\ last.queries = <<>>
        /\ Len(last.errors) = (IF BadParameter(last.pageQ, 0) THEN 1 ELSE 0)
                             + (IF BadParameter(last.limitQ, MaxLimit) THEN 1 ELSE 0)

\* the least number of pages of itemsPerPage items that hold totalItems items
CeilingOf(totalItems, itemsPerPage) ==
    CHOOSE n \in 0..totalItems : n * itemsPerPage >= totalItems
                                  /\ (n = 0 \/ (n - 1) * itemsPerPage < totalItems)

\* C12: for totalItems >= 0, limit >= 1 and page >= 1, calculatePagination
\* returns totalPages = ceil(totalItems / limit), hasNextPage exactly when the
\* page is before the last, hasPrevPage exactly when it is after the first.
C12_TotalPagesAndFlags ==
    (probe.pc = "done" /\ probe.page >= 1 /\ probe.limit >= 1) =>
        /\ probe.out.currentPage = probe.page
        /\ probe.out.totalPages = CeilingOf(probe.totalItems, probe.limit)
        /\ probe.out.hasNextPage <=> (probe.page < CeilingOf(probe.totalItems, probe.limit))
        /\ probe.out.hasPrevPage <=> (probe.page > 1)

\* the last page of a listing whose last page is not full
C12_Witness ==
    /\ probe.pc = "done"
    /\ probe.limit > 1
    /\ probe.totalItems % probe.limit # 0
    /\ probe.page = probe.out.totalPages
    /\ probe.page > 1
    /\ ~probe.out.hasNextPage

\* C13: for a page in 1..totalPages, startItem = (page-1)*limit + 1 and
\* endItem = min(page*limit, totalItems); for no items both are 0.
C13_ItemRange ==
    (probe.pc = "done" /\ probe.page >= 1 /\ probe.limit >= 1) =>
        /\ (probe.totalItems >= 1 /\ probe.page <= CeilingOf(probe.totalItems, probe.limit)) =>
              /\ probe.out.startItem = (probe.page - 1) * probe.limit + 1
              /\ probe.out.endItem = Min(probe.page * probe.limit, probe.totalItems)
        /\ probe.totalItems = 0 => (probe.out.startItem = 0 /\ probe.out.endItem = 0)

\* page 2 of 95 items by 10: items 11 to 20
C13_Witness ==
    /\ probe.pc = "done"
    /\ probe.page = 2 /\ probe.limit = 10 /\ probe.totalItems = 95
    /\ probe.out.startItem = 11
    /\ probe.out.endItem = 20

\* C14: the itemsOnCurrentPage of the pages 1..totalPages add up to totalItems.
C14_PagesSumToTotal ==
    probe.pc = "walked" => probe.sum = probe.totalItems

\* a walk over several pages, the last of them not full
C14_Witness ==
    /\ probe.pc = "walked"
    /\ probe.page >= 3
    /\ probe.totalItems % probe.limit # 0

\* the statuses a failure may be given
ClosedStatusSet == {400, 401, 404, 409, 503, 504, 500}

\* C19: a failure is given one status of the closed set (duplicate-key
\* conflicts 409, token errors 401, connection refusal 503, timeouts 504), and
\* the same status by every classifier.
C19_ClosedTaxonomy ==
    probe.pc = "done" =>
        /\ probe.status \in ClosedStatusSet
        /\ probe.handled \in ClosedStatusSet
        /\ probe.handled = probe.status
        /\ (probe.error.code = "ER_DUP_ENTRY" /\ probe.error.phrases = {}) => probe.status = 409

\* the stored records a well-formed token names: the one with that ID, or the
\* one with that slug
RecordsNamedBy(token) ==
    {m \in movies : IF ExpectedKind(token) = "ID" THEN m.movie_id = DigitsValue(token)
                                                 ELSE m.slug = token}

\* C20: an invalid identifier is answered 400 and no lookup is issued; a
\* well-formed identifier that names no stored record is answered 404.
C20_InvalidOrNotFound ==
    last.op = "get" =>
        /\ ExpectedKind(last.token) = "invalid" =>
              (last.status = ResponseValidationError /\ last.column = "")
        /\ (ExpectedKind(last.token) # "invalid" /\ RecordsNamedBy(last.token) = {}) =>
              last.status = ResponseNotFound

\* the values bound to LIMIT ? and OFFSET ? of the page statement issued
PageBindings == ParamsAfterWhere(probe.pageStatement.conditions, probe.pageStatement.params)

\* C11: whatever raw page, limit and offset are given, the page statement that
\* getAllMovies issues has a LIMIT that is an integer in 1..100 and skips an
\* integer number >= 0 of rows.
C11_PageLimitAndOffset ==
    probe.pc = "done" =>
        /\ probe.pageStatement.hasLimit
        /\ PageBindings[1].k = "int"
        /\ PageBindings[1].v \in 1..MaxLimit
        /\ probe.pageStatement.hasOffset =>
              (PageBindings[2].k = "int" /\ PageBindings[2].v >= 0)

C11_Witness ==
    /\ probe.pc = "done"
    /\ probe.options.limit = JsStr(<<"1", "0", "1">>)
    /\ probe.options.offset = JsInt(0 - 1)
    /\ PageBindings[1] = JsInt(DefaultLimit)

\* C15: when another request writes between the count statement and the page
\* statement of a listing, the listing returns pagination metadata and the
\* total it counted.
C15_MetadataFromCountedTotal ==
    (probe.pc = "done" /\ probe.options.includePagination /\ probe.writeSinceCount) =>
        /\ ~probe.threw
        /\ {"pagination", "totalItems"} \subseteq probe.returned

\* whether the rows returned are in the order of the page statement
InStatementOrder ==
    \A i, j \in 1..Len(probe.movies) :
        i < j => IF probe.pageStatement.sortOrder = "ASC"
                 THEN RowBefore(probe.movies[i], probe.movies[j], probe.pageStatement.sortBy)
                 ELSE RowBefore(probe.movies[j], probe.movies[i], probe.pageStatement.sortBy)

SortFields == {ColTitle, ColReleaseYear, ColRating, ColCreatedAt, ColViewCount}

Present(x) == x.k # "undef" /\ ~(x.k = "str" /\ x.s = <<>>)

\* whether term is a substring of value
Contains(value, term) ==
    \E i \in 0..(Len(value) - Len(term)) : SubSeq(value, i + 1, i + Len(term)) = term

\* whether a record satisfies every filter that is present
ExpectedMatch(m, options) ==
    /\ Present(options.genre) => options.genre.s \in m.genres
    /\ Present(options.director) => m.director = options.director.s
    /\ Present(options.year) => (options.year.k = "int" /\ m.release_year = options.year.v)
    /\ Present(options.search) =>
          \/ Contains(m.title, options.search.s)
          \/ Contains(m.director, options.search.s)
          \/ Contains(m.overview, options.search.s)

\* C18: the count statement and the page statement of a listing select the
\* records that satisfy every filter present (genre AND director AND year AND
\* search, search being a substring of title OR director OR overview); an
\* absent or empty filter selects every record.
C18_FilterPredicate ==
    probe.pc = "done" =>
        \A m \in ListRows :
            /\ WhereHolds(m, probe.pageStatement.conditions, probe.pageStatement.params)
                  <=> ExpectedMatch(m, probe.options)
            /\ probe.options.includePagination =>
                  (WhereHolds(m, probe.countStatement.conditions, probe.countStatement.params)
                      <=> ExpectedMatch(m, probe.options))

\* whether a field of a body is given
Given(x) == x.k # "undef"

\* the rules a body breaks
ViolatedRules(d) ==
         (IF d.title.k = "str" /\ Trim(d.title.s) # <<>> THEN {} ELSE {"title"})
    \cup (IF d.director.k = "str" /\ Trim(d.director.s) # <<>> THEN {} ELSE {"director"})
    \cup (IF d.year.k = "int" /\ d.year.v \in 1900..(CurrentYear + 10) THEN {} ELSE {"year"})
    \cup (IF d.genre.k = "str" /\ Trim(d.genre.s) # <<>> THEN {} ELSE {"genre"})
    \cup (IF Given(d.duration_minutes)
             /\ ~(d.duration_minutes.k = "int" /\ d.duration_minutes.v >= 1)
          THEN {"duration_minutes"} ELSE {})
    \cup (IF Given(d.rating) /\ ~(d.rating.k = "int" /\ d.rating.v \in 0..10)
          THEN {"rating"} ELSE {})
    \cup {f \in {"trailer_url", "video_url", "poster_landscape", "poster_portrait"} :
              /\ Given(d[f])
              /\ d[f] # JsStr(<<>>)
              /\ ~(d[f].k = "str" /\ d[f].s \in WellFormedUrls)}

Suffixed(b, k) == b \o <<"-">> \o DecStr(k)

\* the candidate probed after n candidates were found stored
Candidate(b, n) == IF n = 0 THEN b ELSE Suffixed(b, n)

\* C22: the loop probes b, b-1, b-2, ... in that order, each suffix put on b
\* itself, and goes on only past candidates that are stored; when b is stored
\* it ends with b-k for the least k >= 1 such that b-k is not stored.
C22_LeastFreeSuffix ==
    calls["c1"].pc \in {"check", "insert"} =>
        LET b == calls["c1"].baseSlug
            n == calls["c1"].slugCounter - 1
        IN  /\ calls["c1"].finalSlug = Candidate(b, n)
            /\ \A j \in 0..(n - 1) : Candidate(b, j) \in Slugs(movies)
            /\ (calls["c1"].pc = "insert" /\ b \in Slugs(movies)) =>
                  /\ n >= 1
                  /\ calls["c1"].finalSlug = Suffixed(b, n)
                  /\ Suffixed(b, n) \notin Slugs(movies)
                  /\ \A k \in 1..(n - 1) : Suffixed(b, k) \in Slugs(movies)

\* b, b-1 and b-2 were stored and b-3 was not: the loop ended with b-3
C22_Witness ==
    /\ calls["c1"].pc = "insert"
    /\ calls["c1"].baseSlug = <<"a", "-", "1">>
    /\ {<<"a", "-", "1">>, <<"a", "-", "1", "-", "1">>, <<"a", "-", "1", "-", "2">>}
          \subseteq Slugs(movies)
    /\ calls["c1"].finalSlug = <<"a", "-", "1", "-", "3">>

\* the lengths of the prefixes of s that are whole hyphen-delimited segments
\* and have at most 50 characters
WholeSegmentCuts(s) ==
    {n \in 1..SlugMaxLen : /\ n <= Len(s)
                           /\ s[n] # "-"
                           /\ (n = Len(s) \/ s[n + 1] = "-")}

\* the longest of them
LongestWholeSegments(s) ==
    SubSeq(s, 1, CHOOSE n \in WholeSegmentCuts(s) : \A m \in WholeSegmentCuts(s) : m <= n)

\* C23: when the normalised slug of a title is longer than 50 characters and
\* some prefix of whole segments fits in 50, generateMovieSlug (no movie id)
\* returns the longest such prefix; a segment that ends at character 50 is
\* kept.
C23_LongestWholeSegments ==
    (/\ probe.pc = "done"
     /\ probe.movieId = NoId
     /\ probe.title # <<>>
     /\ Len(Normalise(probe.title)) > SlugMaxLen
     /\ WholeSegmentCuts(Normalise(probe.title)) # {}) =>
        probe.out = LongestWholeSegments(Normalise(probe.title))

\* whether a title has no character of [a-z0-9] once in lower case
NoAlnum(title) == \A i \in 1..Len(title) : ~IsLowerAlnum(ToLower(title[i]))

\* C24: for a non-empty title without any character of [a-z0-9],
\* generateMovieSlug returns a slug of the slug format: movie-<id> when a
\* movie id is given, movie-<timestamp> when none is.
C24_FallbackSlug ==
    (probe.pc = "done" /\ probe.title # <<>> /\ NoAlnum(probe.title)) =>
        /\ MatchesSlugPattern(probe.out)
        /\ probe.movieId # NoId =>
              probe.out = <<"m", "o", "v", "i", "e", "-">> \o DecStr(probe.movieId)
        /\ probe.movieId = NoId =>
              \E now \in NowStrings : probe.out = <<"m", "o", "v", "i", "e", "-">> \o now

\* C25: for totalPages > maxPages and currentPage in 1..totalPages the window
\* is maxPages consecutive pages within 1..totalPages that hold currentPage,
\* with an ellipsis before it iff it starts after page 1 and one after it iff
\* it ends before totalPages; for totalPages <= maxPages it is 1..totalPages
\* without ellipsis.
C25_PageWindow ==
    (probe.pc = "done" /\ probe.currentPage \in 1..probe.totalPages) =>
        LET pages == probe.out.pages
        IN  IF probe.totalPages > probe.maxPages
            THEN /\ Len(pages) = probe.maxPages
                 /\ \A i \in 1..(Len(pages) - 1) : pages[i + 1] = pages[i] + 1
                 /\ \A i \in 1..Len(pages) : pages[i] \in 1..probe.totalPages
                 /\ \E i \in 1..Len(pages) : pages[i] = probe.currentPage
                 /\ probe.out.showEllipsisStart <=> pages[1] > 1
                 /\ probe.out.showEllipsisEnd <=> pages[Len(pages)] < probe.totalPages
            ELSE /\ pages = [i \in 1..probe.totalPages |-> i]
                 /\ ~probe.out.showEllipsisStart
                 /\ ~probe.out.showEllipsisEnd

\* page 12 of 13 with the default window: pages 4..13, an ellipsis before only
C25_Witness ==
    /\ probe.pc = "done"
    /\ probe.maxPages = 10
    /\ probe.totalPages = 13
    /\ probe.currentPage = 12
    /\ probe.out.pages = <<4, 5, 6, 7, 8, 9, 10, 11, 12, 13>>
    /\ probe.out.showEllipsisStart
    /\ ~probe.out.showEllipsisEnd

\* C26: every slug createMovie stores is accepted by isValidSlug, and a
\* lookup by the slug of a stored movie is not rejected as an invalid
\* identifier.
C26_StoredSlugsAreValid ==
    /\ \A r \in movies : isValidSlug(JsStr(r.slug))
    /\ last.op = "get" => (last.kind # "invalid" /\ last.status # 400)

\* the fallback slug was stored twice, the second time with a suffix, and the
\* second movie was looked up by its slug
C26_Witness ==
    /\ last.op = "get"
    /\ last.status = 200
    /\ \E now \in NowStrings :
          /\ last.token = <<"m", "o", "v", "i", "e", "-">> \o now \o <<"-", "1">>
          /\ \E r \in movies : r.slug = <<"m", "o", "v", "i", "e", "-">> \o now
    /\ \E r \in movies : Len(r.slug) = SlugMaxLen - 2

\* the number of times a record is on the pages fetched
TimesFetched(row) ==
    Cardinality({<<i, j>> \in (1..Len(probe.pages)) \X (1..3) :
                    j <= Len(probe.pages[i]) /\ probe.pages[i][j] = row})

\* C27: with no write in between, the pages 1..totalPages of a listing fetched
\* with one limit hold every matching record exactly once, and no page holds
\* more than limit records.
C27_EveryRecordOnce ==
    probe.pc = "walked" =>
        /\ \A row \in SelectedRows(movies, CountStatement(probe.options)) :
              TimesFetched(row) = 1
        /\ \A i \in 1..Len(probe.pages) : Len(probe.pages[i]) <= probe.options.limit.v

\* C28: the lookup kind handleGetMovieById reports for an identifier it
\* accepts is the column getMovieById queried: 'ID' for movie_id, 'slug' for
\* slug.
C28_ReportedKindIsQueriedColumn ==
    (last.op = "get" /\ last.kind # "invalid") =>
        /\ last.kind = "ID" <=> last.column = "movie_id"
        /\ last.kind = "slug" <=> last.column = "slug"

\* C29: for page >= 1 and limit >= 1 the metadata of calculatePagination is
\* consistent: itemsOnCurrentPage is the number of items from startItem to
\* endItem, 0 for an empty listing and for a page after the last; startItem
\* is at most endItem when the page holds items; isLastPage is the negation of
\* hasNextPage.
C29_ConsistentMetadata ==
    (probe.pc = "done" /\ probe.page >= 1 /\ probe.limit >= 1) =>
        /\ probe.out.itemsOnCurrentPage =
              (IF probe.totalItems = 0 \/ probe.page > probe.out.totalPages THEN 0
               ELSE probe.out.endItem - probe.out.startItem + 1)
        /\ probe.out.itemsOnCurrentPage > 0 => probe.out.startItem <= probe.out.endItem
        /\ probe.out.isLastPage <=> ~probe.out.hasNextPage

\* the checkSlugExists calls a createMovie call has made
ChecksMade(c) == IF calls[c].pc = "check" THEN calls[c].slugCounter - 1 ELSE calls[c].slugCounter

\* C30: with no other writer the loop makes at most (stored slugs + 1)
\* existence checks, and the createMovie call then completes, with the record
\* created or with an error.
C30_BoundedChecksThenCompletes ==
    /\ [](calls["c1"].pc \in {"check", "insert"} =>
            ChecksMade("c1") <= Cardinality(Slugs(movies)) + 1)
    /\ <>(/\ calls["c1"].pc = "done"
          /\ \/ /\ calls["c1"].status = ResponseCreated
                /\ calls["c1"].finalSlug \in Slugs(movies)
             \/ calls["c1"].status >= 400)

\* every candidate up to the highest suffix was stored: the record was created
\* after as many checks as slugs were stored, plus one
C30_Witness ==
    /\ calls["c1"].pc = "done"
    /\ calls["c1"].status = ResponseCreated
    /\ ChecksMade("c1") = MaxSuffix + 2
    /\ Cardinality(movies) = MaxSuffix + 2
    /\ NextCandidate(calls["c1"].baseSlug, MaxSuffix + 1) \in Slugs(movies)

=============================================================================
